---- MODULE Spec2Model ----
(***************************************************************************)
(* A model of the i8080 emulator core: Memory8080 (src/src/memory.rs),     *)
(* Registers and Flag (src/src/registers.rs), CPU with fetch / exec /      *)
(* inter_handle (src/src/cpu.rs) and the harness machine                   *)
(* Machine8080Test (src/examples/test_roms.rs).                            *)
(*                                                                         *)
(* A Rust panic (an index out of range, an arithmetic overflow in a build  *)
(* with overflow checks) ends the process: the CPU record carries the      *)
(* field panicked and every operation stops at the first panic.            *)
(***************************************************************************)
EXTENDS Integers, Sequences, FiniteSets, TLC

----------------------------------------------------------------------------
(* Bounds of the model.                                                    *)

\* The number of calls (next or inter_handle) one run makes.
MaxSteps == 3

----------------------------------------------------------------------------
(* Machine integers.                                                       *)

U8 == 256
U16 == 65536

Pow2(i) == <<1, 2, 4, 8, 16, 32, 64, 128, 256>>[i + 1]

Bit(x, i) == (x \div Pow2(i)) % 2

BitAnd(x, y) ==
    LET F[i \in 0..8] ==
            IF i = 8 THEN 0 ELSE Bit(x, i) * Bit(y, i) * Pow2(i) + F[i + 1]
    IN F[0]

BitOr(x, y) ==
    LET F[i \in 0..8] ==
            IF i = 8 THEN 0
            ELSE (IF Bit(x, i) + Bit(y, i) > 0 THEN Pow2(i) ELSE 0) + F[i + 1]
    IN F[0]

BitXor(x, y) ==
    LET F[i \in 0..8] ==
            IF i = 8 THEN 0
            ELSE ((Bit(x, i) + Bit(y, i)) % 2) * Pow2(i) + F[i + 1]
    IN F[0]

count_ones(x) ==
    LET F[i \in 0..8] == IF i = 8 THEN 0 ELSE Bit(x, i) + F[i + 1]
    IN F[0]

\* u8 / u16 wrapping_add and wrapping_sub.
wrapping_add8(x, y) == (x + y) % U8
wrapping_sub8(x, y) == (x - y + U8) % U8
wrapping_add16(x, y) == (x + y) % U16
wrapping_sub16(x, y) == (x - y + U16) % U16

----------------------------------------------------------------------------
(* Memory8080: the array [u8; 65536], kept as the byte that fills it and   *)
(* the bytes that differ from the fill (set, a function on their           *)
(* addresses).  Two arrays are equal exactly when their records are.       *)

\* [fill; 0x10000]
filled(fill) == [fill |-> fill, set |-> [a \in {} |-> 0]]

\* self.memory[i] for an index in range; an index of 65536 panics (InRange).
InRange(i) == i >= 0 /\ i < U16

read(mem, i) == IF i \in DOMAIN mem.set THEN mem.set[i] ELSE mem.fill

write(mem, i, data) ==
    IF data = mem.fill
    THEN [mem EXCEPT !.set = [a \in (DOMAIN mem.set) \ {i} |-> mem.set[a]]]
    ELSE [mem EXCEPT !.set = [a \in (DOMAIN mem.set) \cup {i} |->
                                 IF a = i THEN data ELSE mem.set[a]]]

\* read16 reads i + 1 first (a usize sum: 65536 for i = 0xffff), then i.
read16_panics(i) == ~InRange(i + 1)

read16(mem, i) == read(mem, i + 1) * 256 + read(mem, i)

\* write16 writes i + 1 first, then i.
write16_panics(i) == ~InRange(i + 1)

\* write16 that stores the high byte at i and the low byte at i + 1.
write16_high_byte_first(mem, i, data) ==
    LET hi == (data \div 256) % 256
        lo == data % 256
    IN write(write(mem, i + 1, lo), i, hi)

write16(mem, i, data) ==
    LET hi == (data \div 256) % 256
        lo == data % 256
    IN write(write(mem, i + 1, hi), i, lo)

new_empty == filled(0)

\* Memory8080::new(memory): the store holding the given image.
Memory8080_new(image) == image

----------------------------------------------------------------------------
(* Registers and Flag.                                                     *)

\* enum Flag: the bit of f each flag lives in.
Flag_S == 7
Flag_Z == 6
Flag_A == 4
Flag_P == 2
Flag_C == 0

Registers_new ==
    [b |-> 0, c |-> 0, d |-> 0, e |-> 0, h |-> 0, l |-> 0, a |-> 0, f |-> 2]

get_af(regs) == regs.a * 256 + regs.f
get_bc(regs) == regs.b * 256 + regs.c
get_de(regs) == regs.d * 256 + regs.e
get_hl(regs) == regs.h * 256 + regs.l

set_af(regs, data) ==
    [regs EXCEPT !.a = (data \div 256) % 256, !.f = data % 256]
set_bc(regs, data) ==
    [regs EXCEPT !.b = (data \div 256) % 256, !.c = data % 256]
set_de(regs, data) ==
    [regs EXCEPT !.d = (data \div 256) % 256, !.e = data % 256]
set_hl(regs, data) ==
    [regs EXCEPT !.h = (data \div 256) % 256, !.l = data % 256]

get_flag(regs, f) == Bit(regs.f, f) = 1

set_flag(regs, f, c) ==
    IF c
    THEN [regs EXCEPT !.f = @ + (1 - Bit(@, f)) * Pow2(f)]
    ELSE [regs EXCEPT !.f = @ - Bit(@, f) * Pow2(f)]

----------------------------------------------------------------------------
(* The state: the fields of Machine8080Test (cpu, test_finished), the      *)
(* build profile the program was compiled with, and the calls made so far. *)

VARIABLES
    cpu,              \* Machine8080Test.cpu: the CPU record
    test_finished,    \* Machine8080Test.test_finished
    hung,             \* next is in a loop it never leaves
    overflow_checks,  \* TRUE in a build that panics on integer overflow
    trace             \* the calls made: what was called, on which CPU, its result

vars == <<cpu, test_finished, hung, overflow_checks, trace>>

----------------------------------------------------------------------------
(* CPU.  A CPU value is the record of its fields regs, memory, pc, sp and  *)
(* inter, with panicked: whether a panic has ended the process.            *)

Event_Output(port, value, cycles) ==
    [tag |-> "Output", port |-> port, value |-> value, cycles |-> cycles]
Event_Halt(cycles) ==
    [tag |-> "Halt", port |-> 0, value |-> 0, cycles |-> cycles]
Event_Normal(cycles) ==
    [tag |-> "Normal", port |-> 0, value |-> 0, cycles |-> cycles]
\* What a call that panicked returns: nothing.
NoEvent == [tag |-> "Panic", port |-> 0, value |-> 0, cycles |-> 0]
\* Option::None of inter_handle.
None == [tag |-> "None", port |-> 0, value |-> 0, cycles |-> 0]

CPU_new_empty ==
    [regs |-> Registers_new, memory |-> new_empty, pc |-> 0, sp |-> 0,
     inter |-> FALSE, panicked |-> FALSE]

\* CPU::new with the stack pointer the tests of cpu.rs expect.
CPU_new_sp_f000(memory) ==
    [regs |-> Registers_new, memory |-> Memory8080_new(memory), pc |-> 0,
     sp |-> 61440, inter |-> FALSE, panicked |-> FALSE]

CPU_new(memory) ==
    [regs |-> Registers_new, memory |-> Memory8080_new(memory), pc |-> 0,
     sp |-> 0, inter |-> FALSE, panicked |-> FALSE]

panic(c) == [c EXCEPT !.panicked = TRUE]

get_m(c) == read(c.memory, get_hl(c.regs))

set_m(c, data) == [c EXCEPT !.memory = write(@, get_hl(c.regs), data)]

stax(c, addr) == [c EXCEPT !.memory = write(@, addr, c.regs.a)]

\* The arithmetic and bitwise helpers return the result n with the CPU
\* whose flags they have set.
\* inr that sets the carry flag when the value wraps, as add would.
inr_sets_carry(c, n) ==
    LET r == wrapping_add8(n, 1)
        r1 == set_flag(c.regs, Flag_S, BitAnd(r, 128) = 128)
        r2 == set_flag(r1, Flag_Z, r = 0)
        r3 == set_flag(r2, Flag_A, BitAnd(n, 15) + 1 > 15)
        r4 == set_flag(r3, Flag_P, count_ones(r) % 2 = 0)
        r5 == set_flag(r4, Flag_C, n + 1 > 255)
    IN [cpu |-> [c EXCEPT !.regs = r5], n |-> r]

inr(c, n) ==
    LET r == wrapping_add8(n, 1)
        r1 == set_flag(c.regs, Flag_S, BitAnd(r, 128) = 128)
        r2 == set_flag(r1, Flag_Z, r = 0)
        r3 == set_flag(r2, Flag_A, BitAnd(n, 15) + 1 > 15)
        r4 == set_flag(r3, Flag_P, count_ones(r) % 2 = 0)
    IN [cpu |-> [c EXCEPT !.regs = r4], n |-> r]

dcr(c, n) ==
    LET r == wrapping_sub8(n, 1)
        r1 == set_flag(c.regs, Flag_S, BitAnd(r, 128) = 128)
        r2 == set_flag(r1, Flag_Z, r = 0)
        r3 == set_flag(r2, Flag_A, BitAnd(r, 15) # 15)
        r4 == set_flag(r3, Flag_P, count_ones(r) % 2 = 0)
    IN [cpu |-> [c EXCEPT !.regs = r4], n |-> r]

\* add whose auxiliary carry is set already when the nibble sum is 0x0f.
add_aux_at_0f(c, regm1, regm2) ==
    LET n == wrapping_add8(regm1, regm2)
        r1 == set_flag(c.regs, Flag_S, BitAnd(n, 128) = 128)
        r2 == set_flag(r1, Flag_Z, n = 0)
        r3 == set_flag(r2, Flag_A, BitAnd(regm1, 15) + BitAnd(regm2, 15) >= 15)
        r4 == set_flag(r3, Flag_P, count_ones(n) % 2 = 0)
        r5 == set_flag(r4, Flag_C, regm1 + regm2 > 255)
    IN [cpu |-> [c EXCEPT !.regs = r5], n |-> n]

add(c, regm1, regm2) ==
    LET n == wrapping_add8(regm1, regm2)
        r1 == set_flag(c.regs, Flag_S, BitAnd(n, 128) = 128)
        r2 == set_flag(r1, Flag_Z, n = 0)
        r3 == set_flag(r2, Flag_A, BitAnd(regm1, 15) + BitAnd(regm2, 15) > 15)
        r4 == set_flag(r3, Flag_P, count_ones(n) % 2 = 0)
        r5 == set_flag(r4, Flag_C, regm1 + regm2 > 255)
    IN [cpu |-> [c EXCEPT !.regs = r5], n |-> n]

\* adc whose auxiliary carry leaves the carry-in out of the nibble sum.
adc_nibbles_without_carry(c, regm1, regm2) ==
    LET carry == IF get_flag(c.regs, Flag_C) THEN 1 ELSE 0
        n == wrapping_add8(wrapping_add8(regm1, regm2), carry)
        r1 == set_flag(c.regs, Flag_S, BitAnd(n, 128) = 128)
        r2 == set_flag(r1, Flag_Z, n = 0)
        r3 == set_flag(r2, Flag_A, BitAnd(regm1, 15) + BitAnd(regm2, 15) > 15)
        r4 == set_flag(r3, Flag_P, count_ones(n) % 2 = 0)
        r5 == set_flag(r4, Flag_C, regm1 + regm2 + carry > 255)
    IN [cpu |-> [c EXCEPT !.regs = r5], n |-> n]

adc(c, regm1, regm2) ==
    LET carry == IF get_flag(c.regs, Flag_C) THEN 1 ELSE 0
        n == wrapping_add8(wrapping_add8(regm1, regm2), carry)
        r1 == set_flag(c.regs, Flag_S, BitAnd(n, 128) = 128)
        r2 == set_flag(r1, Flag_Z, n = 0)
        r3 == set_flag(r2, Flag_A,
                       BitAnd(regm1, 15) + BitAnd(regm2, 15) + carry > 15)
        r4 == set_flag(r3, Flag_P, count_ones(n) % 2 = 0)
        r5 == set_flag(r4, Flag_C, regm1 + regm2 + carry > 255)
    IN [cpu |-> [c EXCEPT !.regs = r5], n |-> n]

\* (x as i8 & 0x0f) is the low nibble of x, so the i8 differences below
\* lie in -16..15 and never overflow.
sub(c, regm1, regm2) ==
    LET n == wrapping_sub8(regm1, regm2)
        r1 == set_flag(c.regs, Flag_S, BitAnd(n, 128) = 128)
        r2 == set_flag(r1, Flag_Z, n = 0)
        r3 == set_flag(r2, Flag_A, BitAnd(regm1, 15) - BitAnd(regm2, 15) >= 0)
        r4 == set_flag(r3, Flag_P, count_ones(n) % 2 = 0)
        r5 == set_flag(r4, Flag_C, regm1 < regm2)
    IN [cpu |-> [c EXCEPT !.regs = r5], n |-> n]

\* sbb whose borrow compares with regm2 + carry truncated to 8 bits.
sbb_truncated_borrow(c, regm1, regm2) ==
    LET carry == IF get_flag(c.regs, Flag_C) THEN 1 ELSE 0
        n == wrapping_sub8(wrapping_sub8(regm1, regm2), carry)
        r1 == set_flag(c.regs, Flag_S, BitAnd(n, 128) = 128)
        r2 == set_flag(r1, Flag_Z, n = 0)
        r3 == set_flag(r2, Flag_A,
                       BitAnd(regm1, 15) - BitAnd(regm2, 15)
                           - BitAnd(carry, 15) >= 0)
        r4 == set_flag(r3, Flag_P, count_ones(n) % 2 = 0)
        r5 == set_flag(r4, Flag_C, regm1 < (regm2 + carry) % 256)
    IN [cpu |-> [c EXCEPT !.regs = r5], n |-> n]

sbb(c, regm1, regm2) ==
    LET carry == IF get_flag(c.regs, Flag_C) THEN 1 ELSE 0
        n == wrapping_sub8(wrapping_sub8(regm1, regm2), carry)
        r1 == set_flag(c.regs, Flag_S, BitAnd(n, 128) = 128)
        r2 == set_flag(r1, Flag_Z, n = 0)
        r3 == set_flag(r2, Flag_A,
                       BitAnd(regm1, 15) - BitAnd(regm2, 15)
                           - BitAnd(carry, 15) >= 0)
        r4 == set_flag(r3, Flag_P, count_ones(n) % 2 = 0)
        r5 == set_flag(r4, Flag_C, regm1 < regm2 + carry)
    IN [cpu |-> [c EXCEPT !.regs = r5], n |-> n]

\* ana that clears the auxiliary carry as xra and ora do.
ana_clears_aux(c, regm1, regm2) ==
    LET n == BitAnd(regm1, regm2)
        r1 == set_flag(c.regs, Flag_S, BitAnd(n, 128) = 128)
        r2 == set_flag(r1, Flag_Z, n = 0)
        r3 == set_flag(r2, Flag_A, FALSE)
        r4 == set_flag(r3, Flag_P, count_ones(n) % 2 = 0)
        r5 == set_flag(r4, Flag_C, FALSE)
    IN [cpu |-> [c EXCEPT !.regs = r5], n |-> n]

ana(c, regm1, regm2) ==
    LET n == BitAnd(regm1, regm2)
        r1 == set_flag(c.regs, Flag_S, BitAnd(n, 128) = 128)
        r2 == set_flag(r1, Flag_Z, n = 0)
        r3 == set_flag(r2, Flag_A, BitAnd(BitOr(regm1, regm2), 8) # 0)
        r4 == set_flag(r3, Flag_P, count_ones(n) % 2 = 0)
        r5 == set_flag(r4, Flag_C, FALSE)
    IN [cpu |-> [c EXCEPT !.regs = r5], n |-> n]

xra(c, regm1, regm2) ==
    LET n == BitXor(regm1, regm2)
        r1 == set_flag(c.regs, Flag_S, BitAnd(n, 128) = 128)
        r2 == set_flag(r1, Flag_Z, n = 0)
        r3 == set_flag(r2, Flag_A, FALSE)
        r4 == set_flag(r3, Flag_P, count_ones(n) % 2 = 0)
        r5 == set_flag(r4, Flag_C, FALSE)
    IN [cpu |-> [c EXCEPT !.regs = r5], n |-> n]

ora(c, regm1, regm2) ==
    LET n == BitOr(regm1, regm2)
        r1 == set_flag(c.regs, Flag_S, BitAnd(n, 128) = 128)
        r2 == set_flag(r1, Flag_Z, n = 0)
        r3 == set_flag(r2, Flag_A, FALSE)
        r4 == set_flag(r3, Flag_P, count_ones(n) % 2 = 0)
        r5 == set_flag(r4, Flag_C, FALSE)
    IN [cpu |-> [c EXCEPT !.regs = r5], n |-> n]

\* cmp that subtracts the carry flag as well.
cmp_with_borrow(c, regm1, regm2) == sbb(c, regm1, regm2).cpu

\* cmp drops the result of sub and keeps its flags.
cmp(c, regm1, regm2) == sub(c, regm1, regm2).cpu

\* A u16 `+` / `-` / `+=` / `-=`: with overflow checks an overflow panics,
\* without them the result wraps.
overflows16(x) == (x < 0 \/ x >= U16) /\ overflow_checks
wrap16(x) == (x + U16) % U16

push(c, data) ==
    LET c1 == [c EXCEPT !.sp = wrapping_sub16(c.sp, 2)]
    IN IF write16_panics(c1.sp) THEN panic(c1)
       ELSE [c1 EXCEPT !.memory = write16(@, c1.sp, data)]

pop(c) ==
    IF read16_panics(c.sp) THEN [cpu |-> panic(c), data |-> 0]
    ELSE [cpu |-> [c EXCEPT !.sp = wrapping_add16(c.sp, 2)],
          data |-> read16(c.memory, c.sp)]

jmp(c, cond) ==
    IF cond
    THEN IF read16_panics(c.pc) THEN panic(c)
         ELSE [c EXCEPT !.pc = read16(c.memory, c.pc)]
    ELSE [c EXCEPT !.pc = wrapping_add16(c.pc, 2)]

\* call that pushes the return address also when the condition is false.
call_pushes_when_untaken(c, cond) ==
    LET c1 == push(c, wrapping_add16(c.pc, 2))
    IN IF c1.panicked THEN [cpu |-> c1, event |-> NoEvent]
       ELSE IF cond
       THEN IF read16_panics(c1.pc)
            THEN [cpu |-> panic(c1), event |-> NoEvent]
            ELSE [cpu |-> [c1 EXCEPT !.pc = read16(c1.memory, c1.pc)],
                  event |-> Event_Normal(17)]
       ELSE [cpu |-> [c1 EXCEPT !.pc = wrapping_add16(c.pc, 2)],
             event |-> Event_Normal(11)]

call(c, cond) ==
    IF cond
    THEN LET c1 == push(c, wrapping_add16(c.pc, 2))
         IN IF c1.panicked THEN [cpu |-> c1, event |-> NoEvent]
            ELSE IF read16_panics(c1.pc)
            THEN [cpu |-> panic(c1), event |-> NoEvent]
            ELSE [cpu |-> [c1 EXCEPT !.pc = read16(c1.memory, c1.pc)],
                  event |-> Event_Normal(17)]
    ELSE [cpu |-> [c EXCEPT !.pc = wrapping_add16(c.pc, 2)],
          event |-> Event_Normal(11)]

ret(c, cond) ==
    IF cond
    THEN LET p == pop(c)
         IN IF p.cpu.panicked THEN [cpu |-> p.cpu, event |-> NoEvent]
            ELSE [cpu |-> [p.cpu EXCEPT !.pc = p.data],
                  event |-> Event_Normal(11)]
    ELSE [cpu |-> c, event |-> Event_Normal(5)]

rst(c, addr) ==
    LET at == wrapping_add16(c.sp, 2)
    IN IF write16_panics(at) THEN panic(c)
       ELSE [c EXCEPT !.memory = write16(@, at, c.pc), !.pc = addr]

\* inter_handle without the test of the latch.
inter_handle_unlatched(c, addr) ==
    LET c1 == push([c EXCEPT !.inter = FALSE], c.pc)
    IN IF c1.panicked THEN [cpu |-> c1, event |-> NoEvent]
       ELSE [cpu |-> [c1 EXCEPT !.pc = addr], event |-> Event_Normal(17)]

\* inter_handle that accepts and leaves the latch set.
inter_handle_keeps_latch(c, addr) ==
    IF c.inter
    THEN LET c1 == push(c, c.pc)
         IN IF c1.panicked THEN [cpu |-> c1, event |-> NoEvent]
            ELSE [cpu |-> [c1 EXCEPT !.pc = addr], event |-> Event_Normal(17)]
    ELSE [cpu |-> c, event |-> None]

\* inter_handle that sets PC to the vector before it pushes PC.
inter_handle_pushes_vector(c, addr) ==
    IF c.inter
    THEN LET c1 == push([c EXCEPT !.inter = FALSE], addr)
         IN IF c1.panicked THEN [cpu |-> c1, event |-> NoEvent]
            ELSE [cpu |-> [c1 EXCEPT !.pc = addr], event |-> Event_Normal(17)]
    ELSE [cpu |-> c, event |-> None]

inter_handle(c, addr) ==
    IF c.inter
    THEN LET c1 == push([c EXCEPT !.inter = FALSE], c.pc)
         IN IF c1.panicked THEN [cpu |-> c1, event |-> NoEvent]
            ELSE [cpu |-> [c1 EXCEPT !.pc = addr], event |-> Event_Normal(17)]
    ELSE [cpu |-> c, event |-> None]

fetch(c) ==
    [cpu |-> [c EXCEPT !.pc = wrapping_add16(c.pc, 1)],
     op |-> read(c.memory, c.pc)]

----------------------------------------------------------------------------
(* exec.  The source lists the 256 opcodes one by one; the families whose  *)
(* arms differ only in the register named are decoded here from the bits   *)
(* of the opcode that name it: 0 b, 1 c, 2 d, 3 e, 4 h, 5 l, 6 M, 7 a.     *)

regm(c, i) ==
    CASE i = 0 -> c.regs.b [] i = 1 -> c.regs.c [] i = 2 -> c.regs.d
      [] i = 3 -> c.regs.e [] i = 4 -> c.regs.h [] i = 5 -> c.regs.l
      [] i = 6 -> get_m(c) [] i = 7 -> c.regs.a

set_regm(c, i, v) ==
    CASE i = 0 -> [c EXCEPT !.regs.b = v] [] i = 1 -> [c EXCEPT !.regs.c = v]
      [] i = 2 -> [c EXCEPT !.regs.d = v] [] i = 3 -> [c EXCEPT !.regs.e = v]
      [] i = 4 -> [c EXCEPT !.regs.h = v] [] i = 5 -> [c EXCEPT !.regs.l = v]
      [] i = 6 -> set_m(c, v)             [] i = 7 -> [c EXCEPT !.regs.a = v]

\* The condition of Jcc / Ccc / Rcc, from bits 3..5 of the opcode:
\* NZ Z NC C PO PE P M.
condition(c, i) ==
    CASE i = 0 -> ~get_flag(c.regs, Flag_Z) [] i = 1 -> get_flag(c.regs, Flag_Z)
      [] i = 2 -> ~get_flag(c.regs, Flag_C) [] i = 3 -> get_flag(c.regs, Flag_C)
      [] i = 4 -> ~get_flag(c.regs, Flag_P) [] i = 5 -> get_flag(c.regs, Flag_P)
      [] i = 6 -> ~get_flag(c.regs, Flag_S) [] i = 7 -> get_flag(c.regs, Flag_S)

\* The register pair of LXI / INX / DCX / DAD, from bits 4..5: bc de hl sp.
get_rp(c, i) ==
    CASE i = 0 -> get_bc(c.regs) [] i = 1 -> get_de(c.regs)
      [] i = 2 -> get_hl(c.regs) [] i = 3 -> c.sp

set_rp(c, i, data) ==
    CASE i = 0 -> [c EXCEPT !.regs = set_bc(@, data)]
      [] i = 1 -> [c EXCEPT !.regs = set_de(@, data)]
      [] i = 2 -> [c EXCEPT !.regs = set_hl(@, data)]
      [] i = 3 -> [c EXCEPT !.sp = data]

\* The register pair of PUSH / POP, from bits 4..5: bc de hl af.
get_rp_psw(c, i) ==
    CASE i = 0 -> get_bc(c.regs) [] i = 1 -> get_de(c.regs)
      [] i = 2 -> get_hl(c.regs) [] i = 3 -> get_af(c.regs)

set_rp_psw(c, i, data) ==
    CASE i = 0 -> [c EXCEPT !.regs = set_bc(@, data)]
      [] i = 1 -> [c EXCEPT !.regs = set_de(@, data)]
      [] i = 2 -> [c EXCEPT !.regs = set_hl(@, data)]
      [] i = 3 -> [c EXCEPT !.regs = set_af(@, data)]

\* The helper an arithmetic or bitwise opcode calls, from bits 3..5:
\* add adc sub sbb ana xra ora cmp.  cmp leaves a as it is.
alu(c, i, regm2) ==
    LET r == CASE i = 0 -> add(c, c.regs.a, regm2)
               [] i = 1 -> adc(c, c.regs.a, regm2)
               [] i = 2 -> sub(c, c.regs.a, regm2)
               [] i = 3 -> sbb(c, c.regs.a, regm2)
               [] i = 4 -> ana(c, c.regs.a, regm2)
               [] i = 5 -> xra(c, c.regs.a, regm2)
               [] i = 6 -> ora(c, c.regs.a, regm2)
               [] i = 7 -> [cpu |-> cmp(c, c.regs.a, regm2), n |-> c.regs.a]
    IN [r.cpu EXCEPT !.regs.a = r.n]

\* What exec returns: the CPU it leaves and the Event, or no Event after a
\* panic.
Normal(c, cycles) == [cpu |-> c, event |-> Event_Normal(cycles)]
Panicked(c) == [cpu |-> panic(c), event |-> NoEvent]

\* let data = self.memory.read(self.pc.into());
\* self.pc = self.pc.wrapping_add(1);
imm8(c) ==
    [cpu |-> [c EXCEPT !.pc = wrapping_add16(c.pc, 1)],
     data |-> read(c.memory, c.pc)]

NOPs == {0, 16, 32, 48, 8, 24, 40, 56}

exec_lxi(c, op) ==
    IF read16_panics(c.pc) THEN Panicked(c)
    ELSE IF overflows16(c.pc + 2) THEN Panicked(c)
    ELSE Normal(set_rp([c EXCEPT !.pc = wrap16(c.pc + 2)], op \div 16,
                       read16(c.memory, c.pc)), 10)

exec_inx(c, op) ==
    LET data == get_rp(c, op \div 16) + 1
    IN IF overflows16(data) THEN Panicked(c)
       ELSE Normal(set_rp(c, op \div 16, wrap16(data)), 5)

exec_dcx(c, op) ==
    LET data == get_rp(c, op \div 16) - 1
    IN IF overflows16(data) THEN Panicked(c)
       ELSE Normal(set_rp(c, op \div 16, wrap16(data)), 5)

exec_inr(c, op) ==
    LET d == op \div 8
        r == inr(c, regm(c, d))
    IN Normal(set_regm(r.cpu, d, r.n), IF d = 6 THEN 10 ELSE 5)

exec_dcr(c, op) ==
    LET d == op \div 8
        r == dcr(c, regm(c, d))
    IN Normal(set_regm(r.cpu, d, r.n), IF d = 6 THEN 10 ELSE 5)

exec_mvi(c, op) ==
    LET d == op \div 8
        i == imm8(c)
    IN Normal(set_regm(i.cpu, d, i.data), IF d = 6 THEN 10 ELSE 7)

exec_mov(c, op) ==
    LET d == (op - 64) \div 8
        s == op % 8
    IN Normal(set_regm(c, d, regm(c, s)), IF d = 6 \/ s = 6 THEN 7 ELSE 5)

exec_alu(c, op) ==
    LET s == op % 8
    IN Normal(alu(c, (op - 128) \div 8, regm(c, s)), IF s = 6 THEN 7 ELSE 4)

exec_alu_imm(c, op) ==
    LET i == imm8(c)
    IN Normal(alu(i.cpu, (op - 198) \div 8, i.data), 7)

\* DAD whose carry is set from hl >= 0xffff - rp.
exec_dad_carry_at_ffff(c, op) ==
    LET rp == get_rp(c, op \div 16)
        n == wrapping_add16(get_hl(c.regs), rp)
        r1 == set_flag(c.regs, Flag_C, get_hl(c.regs) >= 65535 - rp)
    IN Normal([c EXCEPT !.regs = set_hl(r1, n)], 10)

exec_dad(c, op) ==
    LET rp == get_rp(c, op \div 16)
        n == wrapping_add16(get_hl(c.regs), rp)
        r1 == set_flag(c.regs, Flag_C, get_hl(c.regs) > 65535 - rp)
    IN Normal([c EXCEPT !.regs = set_hl(r1, n)], 10)

\* RLC that shifts the old carry into bit 0, as RAL does.
exec_rlc_through_carry(c) ==
    LET carry == BitAnd(c.regs.a, 128) \div 128
        n == BitOr((c.regs.a * 2) % U8,
                   IF get_flag(c.regs, Flag_C) THEN 1 ELSE 0)
    IN Normal([c EXCEPT !.regs = [set_flag(@, Flag_C, carry = 1) EXCEPT !.a = n]],
              4)

exec_rlc(c) ==
    LET carry == BitAnd(c.regs.a, 128) \div 128
        n == BitOr((c.regs.a * 2) % U8, carry)
    IN Normal([c EXCEPT !.regs = [set_flag(@, Flag_C, carry = 1) EXCEPT !.a = n]],
              4)

exec_rrc(c) ==
    LET carry == BitAnd(c.regs.a, 1)
        n == IF carry = 1 THEN BitOr(128, c.regs.a \div 2) ELSE c.regs.a \div 2
    IN Normal([c EXCEPT !.regs = [set_flag(@, Flag_C, carry = 1) EXCEPT !.a = n]],
              4)

\* RAL that shifts the old bit 7 into bit 0, as RLC does.
exec_ral_as_rlc(c) ==
    LET carry == BitAnd(c.regs.a, 128) \div 128
        n == BitOr((c.regs.a * 2) % U8, carry)
    IN Normal([c EXCEPT !.regs = [set_flag(@, Flag_C, carry = 1) EXCEPT !.a = n]],
              4)

exec_ral(c) ==
    LET carry == BitAnd(c.regs.a, 128) \div 128
        n == BitOr((c.regs.a * 2) % U8,
                   IF get_flag(c.regs, Flag_C) THEN 1 ELSE 0)
    IN Normal([c EXCEPT !.regs = [set_flag(@, Flag_C, carry = 1) EXCEPT !.a = n]],
              4)

exec_rar(c) ==
    LET lo == BitAnd(c.regs.a, 1)
        carry == IF get_flag(c.regs, Flag_C) THEN 128 ELSE 0
        n == BitOr(c.regs.a \div 2, carry)
    IN Normal([c EXCEPT !.regs = set_flag([@ EXCEPT !.a = n], Flag_C, lo = 1)],
              4)

exec_cma(c) == Normal([c EXCEPT !.regs.a = 255 - @], 4)

exec_cmc(c) ==
    Normal([c EXCEPT !.regs = set_flag(@, Flag_C, ~get_flag(c.regs, Flag_C))], 4)

exec_stc(c) == Normal([c EXCEPT !.regs = set_flag(@, Flag_C, TRUE)], 4)

\* DAA that keeps the carry of the addition instead of the new carry.
exec_daa_carry_of_add(c) ==
    LET hi == c.regs.a \div 16
        lo == BitAnd(c.regs.a, 15)
        carry0 == get_flag(c.regs, Flag_C)
        res1 == IF lo > 9 \/ get_flag(c.regs, Flag_A) THEN 6 ELSE 0
        high == hi > 9 \/ carry0 \/ (hi >= 9 /\ lo > 9)
        res == IF high THEN res1 + 96 ELSE res1
        r == add(c, c.regs.a, res)
    IN Normal([r.cpu EXCEPT !.regs.a = r.n], 4)

exec_daa(c) ==
    LET hi == c.regs.a \div 16
        lo == BitAnd(c.regs.a, 15)
        carry0 == get_flag(c.regs, Flag_C)
        res1 == IF lo > 9 \/ get_flag(c.regs, Flag_A) THEN 6 ELSE 0
        high == hi > 9 \/ carry0 \/ (hi >= 9 /\ lo > 9)
        res == IF high THEN res1 + 96 ELSE res1
        carry == IF high THEN TRUE ELSE carry0
        r == add(c, c.regs.a, res)
    IN Normal([r.cpu EXCEPT !.regs = set_flag([@ EXCEPT !.a = r.n], Flag_C, carry)],
              4)

exec_shld(c) ==
    IF read16_panics(c.pc) THEN Panicked(c)
    ELSE LET addr == read16(c.memory, c.pc)
             c1 == [c EXCEPT !.pc = wrapping_add16(c.pc, 2),
                             !.memory = write(@, addr, c.regs.l)]
         IN IF overflows16(addr + 1) THEN Panicked(c1)
            ELSE Normal([c1 EXCEPT !.memory = write(@, wrap16(addr + 1), c.regs.h)],
                        16)

exec_sta(c) ==
    IF read16_panics(c.pc) THEN Panicked(c)
    ELSE LET addr == read16(c.memory, c.pc)
         IN Normal([c EXCEPT !.pc = wrapping_add16(c.pc, 2),
                             !.memory = write(@, addr, c.regs.a)], 13)

exec_ldax(c, op) ==
    LET addr == IF op = 10 THEN get_bc(c.regs) ELSE get_de(c.regs)
    IN Normal([c EXCEPT !.regs.a = read(c.memory, addr)], 7)

exec_lhld(c) ==
    IF read16_panics(c.pc) THEN Panicked(c)
    ELSE LET addr == read16(c.memory, c.pc)
         IN IF read16_panics(addr) THEN Panicked(c)
            ELSE Normal([c EXCEPT !.pc = wrapping_add16(c.pc, 2),
                                  !.regs = set_hl(@, read16(c.memory, addr))],
                        16)

exec_lda(c) ==
    IF read16_panics(c.pc) THEN Panicked(c)
    ELSE LET addr == read16(c.memory, c.pc)
         IN Normal([c EXCEPT !.pc = wrapping_add16(c.pc, 2),
                             !.regs.a = read(c.memory, addr)], 13)

exec_jmp(c, cond) ==
    LET c1 == jmp(c, cond)
    IN IF c1.panicked THEN [cpu |-> c1, event |-> NoEvent] ELSE Normal(c1, 13)

exec_xthl(c) ==
    IF read16_panics(c.sp) THEN Panicked(c)
    ELSE LET data == read16(c.memory, c.sp)
         IN IF write16_panics(c.sp) THEN Panicked(c)
            ELSE Normal([c EXCEPT !.memory = write16(@, c.sp, get_hl(c.regs)),
                                  !.regs = set_hl(@, data)], 18)

\* XCHG without the temporary: DE gets the new HL.
exec_xchg_without_tmp(c) ==
    Normal([c EXCEPT !.regs = set_de(set_hl(@, get_de(c.regs)),
                                      get_de(c.regs))], 5)

exec_xchg(c) ==
    LET tmp == get_hl(c.regs)
    IN Normal([c EXCEPT !.regs = set_de(set_hl(@, get_de(c.regs)), tmp)], 5)

exec_push(c, op) ==
    LET c1 == push(c, get_rp_psw(c, (op - 192) \div 16))
    IN IF c1.panicked THEN [cpu |-> c1, event |-> NoEvent] ELSE Normal(c1, 11)

exec_pop(c, op) ==
    LET p == pop(c)
    IN IF p.cpu.panicked THEN [cpu |-> p.cpu, event |-> NoEvent]
       ELSE Normal(set_rp_psw(p.cpu, (op - 192) \div 16, p.data), 10)

exec_in(c) == Normal(imm8(c).cpu, 10)

\* OUT that sends the port number as the value.
exec_out_sends_port(c) ==
    LET i == imm8(c)
    IN [cpu |-> i.cpu, event |-> Event_Output(i.data, i.data, 10)]

exec_out(c) ==
    LET i == imm8(c)
    IN [cpu |-> i.cpu, event |-> Event_Output(i.data, c.regs.a, 10)]

exec_rst(c, op) ==
    LET c1 == rst(c, op - 199)
    IN IF c1.panicked THEN [cpu |-> c1, event |-> NoEvent] ELSE Normal(c1, 11)

\* exec that takes 0xcb, 0xd9, 0xdd, 0xed and 0xfd for NOP.
exec_undocumented_as_nop(c, op) ==
    CASE op \in NOPs \cup {203, 217, 221, 237, 253} -> Normal(c, 4)
      [] op \in {1, 17, 33, 49} -> exec_lxi(c, op)
      [] op = 2 -> Normal(stax(c, get_bc(c.regs)), 7)
      [] op = 18 -> Normal(stax(c, get_de(c.regs)), 7)
      [] op \in {3, 19, 35, 51} -> exec_inx(c, op)
      [] op \in {4, 12, 20, 28, 36, 44, 52, 60} -> exec_inr(c, op)
      [] op \in {5, 13, 21, 29, 37, 45, 53, 61} -> exec_dcr(c, op)
      [] op \in {11, 27, 43, 59} -> exec_dcx(c, op)
      [] op \in 128..191 -> exec_alu(c, op)
      [] op \in {198, 206, 214, 222, 230, 238, 246, 254} -> exec_alu_imm(c, op)
      [] op = 7 -> exec_rlc(c)
      [] op = 15 -> exec_rrc(c)
      [] op = 23 -> exec_ral(c)
      [] op = 31 -> exec_rar(c)
      [] op = 47 -> exec_cma(c)
      [] op = 63 -> exec_cmc(c)
      [] op = 39 -> exec_daa(c)
      [] op = 55 -> exec_stc(c)
      [] op \in {9, 25, 41, 57} -> exec_dad(c, op)
      [] op \in (64..127) \ {118} -> exec_mov(c, op)
      [] op \in {6, 14, 22, 30, 38, 46, 54, 62} -> exec_mvi(c, op)
      [] op = 34 -> exec_shld(c)
      [] op = 50 -> exec_sta(c)
      [] op \in {10, 26} -> exec_ldax(c, op)
      [] op = 42 -> exec_lhld(c)
      [] op = 58 -> exec_lda(c)
      [] op = 195 -> exec_jmp(c, TRUE)
      [] op \in {194, 202, 210, 218, 226, 234, 242, 250} ->
            exec_jmp(c, condition(c, (op - 192) \div 8))
      [] op = 233 -> Normal([c EXCEPT !.pc = get_hl(c.regs)], 5)
      [] op = 249 -> Normal([c EXCEPT !.sp = get_hl(c.regs)], 5)
      [] op = 227 -> exec_xthl(c)
      [] op = 235 -> exec_xchg(c)
      [] op = 205 -> call(c, TRUE)
      [] op \in {196, 204, 212, 220, 228, 236, 244, 252} ->
            call(c, condition(c, (op - 192) \div 8))
      [] op = 201 -> ret(c, TRUE)
      [] op \in {192, 200, 208, 216, 224, 232, 240, 248} ->
            ret(c, condition(c, (op - 192) \div 8))
      [] op \in {197, 213, 229, 245} -> exec_push(c, op)
      [] op \in {193, 209, 225, 241} -> exec_pop(c, op)
      [] op = 251 -> Normal([c EXCEPT !.inter = TRUE], 4)
      [] op = 243 -> Normal([c EXCEPT !.inter = FALSE], 4)
      [] op = 219 -> exec_in(c)
      [] op = 211 -> exec_out(c)
      [] op = 118 -> [cpu |-> c, event |-> Event_Halt(7)]
      [] op \in {199, 207, 215, 223, 231, 239, 247, 255} -> exec_rst(c, op)

exec(c, op) ==
    CASE op \in NOPs -> Normal(c, 4)
      [] op \in {1, 17, 33, 49} -> exec_lxi(c, op)
      [] op = 2 -> Normal(stax(c, get_bc(c.regs)), 7)
      [] op = 18 -> Normal(stax(c, get_de(c.regs)), 7)
      [] op \in {3, 19, 35, 51} -> exec_inx(c, op)
      [] op \in {4, 12, 20, 28, 36, 44, 52, 60} -> exec_inr(c, op)
      [] op \in {5, 13, 21, 29, 37, 45, 53, 61} -> exec_dcr(c, op)
      [] op \in {11, 27, 43, 59} -> exec_dcx(c, op)
      [] op \in 128..191 -> exec_alu(c, op)
      [] op \in {198, 206, 214, 222, 230, 238, 246, 254} -> exec_alu_imm(c, op)
      [] op = 7 -> exec_rlc(c)
      [] op = 15 -> exec_rrc(c)
      [] op = 23 -> exec_ral(c)
      [] op = 31 -> exec_rar(c)
      [] op = 47 -> exec_cma(c)
      [] op = 63 -> exec_cmc(c)
      [] op = 39 -> exec_daa(c)
      [] op = 55 -> exec_stc(c)
      [] op \in {9, 25, 41, 57} -> exec_dad(c, op)
      [] op \in (64..127) \ {118} -> exec_mov(c, op)
      [] op \in {6, 14, 22, 30, 38, 46, 54, 62} -> exec_mvi(c, op)
      [] op = 34 -> exec_shld(c)
      [] op = 50 -> exec_sta(c)
      [] op \in {10, 26} -> exec_ldax(c, op)
      [] op = 42 -> exec_lhld(c)
      [] op = 58 -> exec_lda(c)
      [] op \in {195, 203} -> exec_jmp(c, TRUE)
      [] op \in {194, 202, 210, 218, 226, 234, 242, 250} ->
            exec_jmp(c, condition(c, (op - 192) \div 8))
      [] op = 233 -> Normal([c EXCEPT !.pc = get_hl(c.regs)], 5)
      [] op = 249 -> Normal([c EXCEPT !.sp = get_hl(c.regs)], 5)
      [] op = 227 -> exec_xthl(c)
      [] op = 235 -> exec_xchg(c)
      [] op \in {205, 221, 237, 253} -> call(c, TRUE)
      [] op \in {196, 204, 212, 220, 228, 236, 244, 252} ->
            call(c, condition(c, (op - 192) \div 8))
      [] op \in {201, 217} -> ret(c, TRUE)
      [] op \in {192, 200, 208, 216, 224, 232, 240, 248} ->
            ret(c, condition(c, (op - 192) \div 8))
      [] op \in {197, 213, 229, 245} -> exec_push(c, op)
      [] op \in {193, 209, 225, 241} -> exec_pop(c, op)
      [] op = 251 -> Normal([c EXCEPT !.inter = TRUE], 4)
      [] op = 243 -> Normal([c EXCEPT !.inter = FALSE], 4)
      [] op = 219 -> exec_in(c)
      [] op = 211 -> exec_out(c)
      [] op = 118 -> [cpu |-> c, event |-> Event_Halt(7)]
      [] op \in {199, 207, 215, 223, 231, 239, 247, 255} -> exec_rst(c, op)

----------------------------------------------------------------------------
(* Machine8080Test, the harness machine.                                   *)

\* The print loop of operation 9: it reads from addr upwards until it
\* meets '$' (36), adding 1 to a u16.  It returns when a '$' lies at or
\* above addr; with none there the sum overflows at 0xffff: a panic with
\* overflow checks, and without them a wrap to 0, where the loop goes on
\* and never ends if memory holds no '$' at all.
DollarFrom(mem, addr) ==
    IF mem.fill = 36
    THEN Cardinality({a \in DOMAIN mem.set : a >= addr}) < U16 - addr
    ELSE \E a \in DOMAIN mem.set : a >= addr /\ mem.set[a] = 36

print_string(mem, addr) ==
    IF DollarFrom(mem, addr) THEN "returns"
    ELSE IF overflow_checks THEN "panics"
    ELSE IF DollarFrom(mem, 0) THEN "returns"
    ELSE "hangs"

\* Machine8080Test::next: fetch, exec, then the Output ports of the
\* harness.  It gives the CPU, the opcode fetched, the Event of exec,
\* test_finished and whether next itself returns, panics or hangs.
\* next_match is the match on the Event x.event of exec.
next_match(f, x, finished) ==
    LET printed == IF x.event.tag = "Output" /\ x.event.port = 1
                      /\ x.cpu.regs.c = 9
                   THEN print_string(x.cpu.memory, get_de(x.cpu.regs))
                   ELSE "returns"
    IN [cpu |-> IF printed = "panics" THEN panic(x.cpu) ELSE x.cpu,
        op |-> f.op,
        event |-> x.event,
        test_finished |-> finished
                          \/ (x.event.tag = "Output" /\ x.event.port = 0),
        hangs |-> printed = "hangs"]

next_exec(f, finished) == next_match(f, exec(f.cpu, f.op), finished)

next(c, finished) == next_exec(fetch(c), finished)

----------------------------------------------------------------------------
(* The memory images a machine is built with, and the vectors injected.    *)
(* An image is [fill; 0x10000] with a short program stored at org: an      *)
(* optional first instruction (prefix), then an opcode and the bytes that  *)
(* follow it (tail; with none the bytes that follow are the fill).         *)

Orgs == {0, 65533}

\* INX SP; STC; EI; DCR A; XRA A; LXI D,0xff02
Prefixes == {<<51>>, <<55>>, <<251>>, <<61>>, <<175>>, <<17, 2, 255>>}

\* nothing; 0x02ff; 0xffff; OUT 1's port and RET
Tails == {<<>>, <<255, 2>>, <<255, 255>>, <<1, 201>>}

\* NOP, RET, POP PSW
Fills == {0, 201, 241}

\* The opcodes that follow a prefix: calls, returns, restarts, PUSH and POP,
\* EI, DI, HLT, OUT and those that set or use SP.
AfterPrefix ==
    {205, 221, 237, 253, 196, 204, 212, 220, 228, 236, 244, 252,
     201, 217, 192, 200, 208, 216, 224, 232, 240, 248,
     199, 207, 215, 223, 231, 239, 247, 255,
     197, 213, 229, 245, 193, 209, 225, 241,
     251, 243, 118, 211, 49, 51, 59, 227, 249, 57}

Programs ==
    {[bytes |-> <<op>> \o t, fill |-> 0] : op \in 0..255, t \in Tails}
    \cup {[bytes |-> p \o <<op>> \o t, fill |-> f] :
             p \in Prefixes, op \in AfterPrefix,
             t \in {<<>>, <<255, 2>>}, f \in Fills}

\* memory[org + k] = bytes[k + 1], the addresses taken modulo 65536.
load(mem, org, bytes) ==
    LET F[k \in 0..Len(bytes)] ==
            IF k = 0 THEN mem
            ELSE write(F[k - 1], (org + k - 1) % U16, bytes[k])
    IN F[Len(bytes)]

\* RST 1 and RST 7
Vectors == {8, 56}

Init ==
    /\ \E org \in Orgs, prog \in Programs :
          cpu = [CPU_new(load(filled(prog.fill), org, prog.bytes))
                    EXCEPT !.pc = org]
    /\ test_finished = FALSE
    /\ hung = FALSE
    /\ overflow_checks \in BOOLEAN
    /\ trace = <<>>

Alive == ~cpu.panicked /\ ~hung /\ Len(trace) < MaxSteps

\* One turn of the loop of Machine8080Test::run.
Run ==
    /\ Alive
    /\ ~test_finished
    /\ LET r == next(cpu, test_finished)
       IN /\ cpu' = r.cpu
          /\ test_finished' = r.test_finished
          /\ hung' = r.hangs
          /\ trace' = Append(trace, [call |-> "next", arg |-> r.op,
                                     pre |-> cpu, event |-> r.event])
    /\ UNCHANGED overflow_checks

\* The outer machine injects an interrupt between two instructions.
Interrupt ==
    /\ Alive
    /\ \E addr \in Vectors :
          LET r == inter_handle(cpu, addr)
          IN /\ cpu' = r.cpu
             /\ trace' = Append(trace, [call |-> "inter_handle", arg |-> addr,
                                        pre |-> cpu, event |-> r.event])
    /\ UNCHANGED <<test_finished, hung, overflow_checks>>

Next == Run \/ Interrupt

Spec == Init /\ [][Next]_vars

----------------------------------------------------------------------------
(* What the claims speak of: the calls of a run, the CPU before and after  *)
(* each, and 16-bit words of memory read with the address wrapping.        *)

Calls == 1..Len(trace)

Pre(i) == trace[i].pre
Post(i) == IF i < Len(trace) THEN trace[i + 1].pre ELSE cpu

\* Call i is a next: trace[i].arg is the opcode, fetched at Pre(i).pc.
IsExec(i) == trace[i].call = "next"
\* Call i is an inter_handle: trace[i].arg is the vector.
IsInject(i) == trace[i].call = "inter_handle"
Accepted(i) == IsInject(i) /\ Pre(i).inter
Refused(i) == IsInject(i) /\ ~Pre(i).inter

Returned(i) == trace[i].event.tag \in {"Normal", "Halt", "Output"}

mem16(mem, a) == read(mem, a % U16) + 256 * read(mem, (a + 1) % U16)

CallOps == {205, 221, 237, 253}
CccOps == {196, 204, 212, 220, 228, 236, 244, 252}
RetOps == {201, 217}
RccOps == {192, 200, 208, 216, 224, 232, 240, 248}
RstOps == {199, 207, 215, 223, 231, 239, 247, 255}
PushOps == {197, 213, 229, 245}

TakenCall(i) ==
    /\ IsExec(i)
    /\ \/ trace[i].arg \in CallOps
       \/ /\ trace[i].arg \in CccOps
          /\ condition(Pre(i), (trace[i].arg - 192) \div 8)

TakenRet(i) ==
    /\ IsExec(i)
    /\ \/ trace[i].arg \in RetOps
       \/ /\ trace[i].arg \in RccOps
          /\ condition(Pre(i), (trace[i].arg - 192) \div 8)

----------------------------------------------------------------------------
(* The claims.                                                             *)

\* C1: every call of exec, whatever the opcode and the state, completes and
\* returns one Event (Normal, Halt or Output); none panics.
C1_ExecAlwaysReturns == \A i \in Calls : IsExec(i) => Returned(i)

\* C2: a taken CALL fetched at p leaves SP = (SP - 2) mod 65536, the return
\* address (p + 3) mod 65536 little-endian at the new SP, and PC = the
\* 16-bit operand that followed the opcode when it was fetched.
C2_TakenCall ==
    \A i \in Calls :
        TakenCall(i) =>
            /\ Post(i).sp = (Pre(i).sp - 2) % U16
            /\ mem16(Post(i).memory, Post(i).sp) = (Pre(i).pc + 3) % U16
            /\ Post(i).pc = mem16(Pre(i).memory, Pre(i).pc + 1)

\* C3: from every state a taken CALL completes, and a taken RET executed
\* next resumes just after the CALL's operand with SP as before the CALL.
C3_CallThenRet ==
    \A i \in Calls :
        TakenCall(i) =>
            /\ Returned(i)
            /\ (i < Len(trace) /\ TakenRet(i + 1)) =>
                  /\ Returned(i + 1)
                  /\ Post(i + 1).pc = (Pre(i).pc + 3) % U16
                  /\ Post(i + 1).sp = Pre(i).sp

\* C4: RST n fetched at p pushes (p + 1) mod 65536 as CALL does, sets PC to
\* 8 * n and returns Normal(11); a RET executed next returns to p + 1 with
\* SP restored.
C4_Rst ==
    \A i \in Calls :
        (IsExec(i) /\ trace[i].arg \in RstOps) =>
            /\ trace[i].event = Event_Normal(11)
            /\ Post(i).sp = (Pre(i).sp - 2) % U16
            /\ mem16(Post(i).memory, Post(i).sp) = (Pre(i).pc + 1) % U16
            /\ Post(i).pc = 8 * ((trace[i].arg - 199) \div 8)
            /\ (i < Len(trace) /\ TakenRet(i + 1)) =>
                  /\ Post(i + 1).pc = (Pre(i).pc + 1) % U16
                  /\ Post(i + 1).sp = Pre(i).sp

\* C5: with the latch true, inter_handle(vector) clears the latch, pushes
\* the current PC, sets PC to vector and returns Normal(17); the registers
\* and flags are unchanged.
C5_InterruptAccepted ==
    \A i \in Calls :
        Accepted(i) =>
            /\ trace[i].event = Event_Normal(17)
            /\ ~Post(i).inter
            /\ Post(i).sp = (Pre(i).sp - 2) % U16
            /\ mem16(Post(i).memory, Post(i).sp) = Pre(i).pc
            /\ Post(i).pc = trace[i].arg
            /\ Post(i).regs = Pre(i).regs

\* C6: with the latch false, inter_handle returns None and leaves PC, SP,
\* the registers, the flags, the latch and every memory byte unchanged.
C6_InterruptRefused ==
    \A i \in Calls :
        Refused(i) => trace[i].event = None /\ Post(i) = Pre(i)

\* C6 witness: an injection refused after one was accepted, on a CPU whose
\* stack then holds the pushed PC.
C6_Witness ==
    \E i \in Calls : \E j \in Calls :
        i < j /\ Accepted(i) /\ Returned(i) /\ Refused(j)

\* The latest of EI executed, DI executed and interrupt accepted among the
\* first n calls ("none" when there is none).
LatchEvent(i) ==
    IF IsExec(i) /\ trace[i].arg = 251 THEN "EI"
    ELSE IF IsExec(i) /\ trace[i].arg = 243 THEN "DI"
    ELSE IF Accepted(i) THEN "accepted"
    ELSE "none"

LastLatchEvent ==
    LET F[n \in 0..Len(trace)] ==
            IF n = 0 THEN "none"
            ELSE IF LatchEvent(n) # "none" THEN LatchEvent(n)
            ELSE F[n - 1]
    IN F[Len(trace)]

\* C7: the latch is true exactly when the latest of EI executed, DI
\* executed and interrupt accepted was an EI (false at the start); two
\* interrupts are never accepted with no EI between them; no opcode but EI
\* and DI changes the latch.
C7_Latch ==
    /\ cpu.inter = (LastLatchEvent = "EI")
    /\ \A i \in Calls : \A j \in Calls :
          (i < j /\ Accepted(i) /\ Accepted(j)) =>
              \E k \in (i + 1)..(j - 1) : LatchEvent(k) = "EI"
    /\ \A i \in Calls :
          (IsExec(i) /\ trace[i].arg \notin {251, 243}) =>
              Post(i).inter = Pre(i).inter

\* C7 witness: EI was executed, an interrupt accepted and a later injection
\* refused.
C7_Witness ==
    \E i \in Calls : \E j \in Calls : \E k \in Calls :
        /\ i < j /\ j < k
        /\ LatchEvent(i) = "EI" /\ Accepted(j) /\ Refused(k)
        /\ ~cpu.inter

\* C8: once exec has returned Halt the machine fetches and executes nothing
\* until an injection is accepted, and the fetch after the acceptance
\* reads the opcode at the vector.
C8_HaltStops ==
    \A i \in Calls :
        trace[i].event.tag = "Halt" =>
            \A j \in Calls :
                (i < j /\ IsExec(j)) =>
                    \E k \in (i + 1)..(j - 1) :
                        /\ Accepted(k)
                        /\ (IsExec(k + 1) =>
                              trace[k + 1].arg
                                  = read(Pre(k + 1).memory, trace[k].arg))

\* C9: for every pair BC, DE, HL, PSW and every SP, 0x0000 and 0x0001
\* included, PUSH rp completes and a POP rp executed next leaves the pair
\* and SP as they were before the PUSH.
C9_PushThenPop ==
    \A i \in Calls :
        (IsExec(i) /\ trace[i].arg \in PushOps) =>
            /\ Returned(i)
            /\ (i < Len(trace) /\ IsExec(i + 1)
                    /\ trace[i + 1].arg = trace[i].arg - 4) =>
                  /\ Returned(i + 1)
                  /\ Post(i + 1).regs = Pre(i).regs
                  /\ Post(i + 1).sp = Pre(i).sp

\* C10: in every state reached from a new CPU the flags byte has bit 1 set
\* and bits 3 and 5 clear.
C10_ReservedFlagBits ==
    Bit(cpu.regs.f, 1) = 1 /\ Bit(cpu.regs.f, 3) = 0 /\ Bit(cpu.regs.f, 5) = 0

----------------------------------------------------------------------------
(* The store on its own, as the tests of memory.rs use it: a new_empty     *)
(* store on which write16 and read16 are called with chosen addresses.     *)
(* The store is the memory of an otherwise idle CPU.                       *)

\* 0, the address of the tests of memory.rs, and the last two addresses
Addrs16 == {0, 4, 65534, 65535}

\* the word of the tests of memory.rs, the word whose bytes are those the
\* test of read16 stores at 0 and 1, and a return address
Words16 == {65282, 767, 3}

InitMemory ==
    /\ cpu = CPU_new_empty
    /\ test_finished = FALSE
    /\ hung = FALSE
    /\ overflow_checks \in BOOLEAN
    /\ trace = <<>>

\* memory.write16(i, data)
MemWrite16 ==
    /\ Alive
    /\ \E i \in Addrs16, data \in Words16 :
          /\ cpu' = IF write16_panics(i) THEN panic(cpu)
                    ELSE [cpu EXCEPT !.memory = write16(@, i, data)]
          /\ trace' = Append(trace,
                 [call |-> "write16", arg |-> i, data |-> data, pre |-> cpu,
                  event |-> IF write16_panics(i) THEN NoEvent ELSE None])
    /\ UNCHANGED <<test_finished, hung, overflow_checks>>

\* memory.read16(i); the event holds the word returned.
MemRead16 ==
    /\ Alive
    /\ \E i \in Addrs16 :
          /\ cpu' = IF read16_panics(i) THEN panic(cpu) ELSE cpu
          /\ trace' = Append(trace,
                 [call |-> "read16", arg |-> i, data |-> 0, pre |-> cpu,
                  event |-> IF read16_panics(i) THEN NoEvent
                            ELSE [tag |-> "Word",
                                  value |-> read16(cpu.memory, i)]])
    /\ UNCHANGED <<test_finished, hung, overflow_checks>>

NextMemory == MemWrite16 \/ MemRead16

SpecMemory == InitMemory /\ [][NextMemory]_vars

\* C11: for every address i, write16(i, v) stores the low byte of v at i
\* and the high byte at (i + 1) mod 65536, read16(i) returns
\* mem[i] | (mem[(i + 1) mod 65536] << 8), and read16(i) after
\* write16(i, v) returns v; neither panics at i = 0xffff.
C11_Access16Wraps ==
    \A k \in Calls :
        /\ trace[k].call = "write16" =>
              /\ ~Post(k).panicked
              /\ read(Post(k).memory, trace[k].arg) = trace[k].data % 256
              /\ read(Post(k).memory, (trace[k].arg + 1) % U16)
                     = trace[k].data \div 256
              /\ (k < Len(trace) /\ trace[k + 1].call = "read16"
                      /\ trace[k + 1].arg = trace[k].arg) =>
                    trace[k + 1].event = [tag |-> "Word",
                                          value |-> trace[k].data]
        /\ trace[k].call = "read16" =>
              trace[k].event = [tag |-> "Word",
                                value |-> mem16(Pre(k).memory, trace[k].arg)]

----------------------------------------------------------------------------
(* One instruction at a time, as the tests of cpu.rs run it: an image with *)
(* the instruction, CPU::new, registers and flags set through the pub      *)
(* fields, then fetch and exec.  The values are the boundary values of the *)
(* 8-bit and 16-bit arithmetic.                                            *)

MaxOps == 2

Vals8 == {0, 1, 2, 15, 16, 127, 128, 129, 240, 254, 255}
Vals16 == {0, 1, 255, 4095, 32768, 65280, 65534, 65535}
\* no flag set, C alone, S Z A P, all five
FlagBytes == {2, 3, 214, 215}
\* the addresses whose instruction reaches the end of memory, and 0x100
EdgeOrgs == {65533, 65534, 65535, 256}

AluOps == 128..191
AluImmOps == {198, 206, 214, 222, 230, 238, 246, 254}
InrOps == {4, 12, 20, 28, 36, 44, 52, 60}
DcrOps == {5, 13, 21, 29, 37, 45, 53, 61}
InxOps == {3, 19, 35, 51}
DcxOps == {11, 27, 43, 59}
DadOps == {9, 25, 41, 57}

\* a = x, h = x, every other register y, memory full of y, at address 0:
\* an arithmetic opcode, OUT or IN with y after it, or INR r; DCR r, or
\* DCR r; INR r.
Progs8(y) ==
    {<<op, y>> : op \in AluOps \cup AluImmOps \cup {211, 219}}
    \cup {<<op, op + 1>> : op \in InrOps}
    \cup {<<op, op - 1>> : op \in DcrOps}

Cpu8(x, y, f, bytes) ==
    [CPU_new(load(filled(y), 0, bytes)) EXCEPT
        !.regs = [a |-> x, b |-> y, c |-> y, d |-> y, e |-> y,
                  h |-> x, l |-> y, f |-> f]]

\* bc = de = sp = w, hl = v, at address 0: INX rp; DCX rp, or DCX rp;
\* INX rp, or DAD rp, or XCHG; XCHG.
Progs16 ==
    {<<op, op + 8>> : op \in InxOps}
    \cup {<<op, op - 8>> : op \in DcxOps}
    \cup {<<op>> : op \in DadOps}
    \cup {<<235, 235>>}

Cpu16(w, v, f, bytes) ==
    [CPU_new(load(filled(0), 0, bytes)) EXCEPT
        !.regs = set_hl(set_de(set_bc([Registers_new EXCEPT !.f = f], w), w),
                        v),
        !.sp = w]

\* every opcode with the operand 0x02ff, at the end of memory and at 0x100
CpuEdge(org, op, f) ==
    [CPU_new(load(filled(0), org, <<op, 255, 2>>)) EXCEPT
        !.pc = org, !.regs.f = f]

InitOps ==
    /\ \/ \E x \in Vals8, y \in Vals8, f \in FlagBytes :
             \E bytes \in Progs8(y) : cpu = Cpu8(x, y, f, bytes)
       \/ \E w \in Vals16, v \in Vals16, f \in FlagBytes, bytes \in Progs16 :
             cpu = Cpu16(w, v, f, bytes)
       \/ \E org \in EdgeOrgs, op \in 0..255, f \in FlagBytes :
             cpu = CpuEdge(org, op, f)
    /\ test_finished = FALSE
    /\ hung = FALSE
    /\ overflow_checks \in BOOLEAN
    /\ trace = <<>>

\* let op = cpu.fetch(); cpu.exec(op)
exec_fetched(f) == [op |-> f.op, x |-> exec(f.cpu, f.op)]
fetch_exec(c) == exec_fetched(fetch(c))

Step ==
    /\ ~cpu.panicked
    /\ Len(trace) < MaxOps
    /\ LET r == fetch_exec(cpu)
       IN /\ cpu' = r.x.cpu
          /\ trace' = Append(trace, [call |-> "exec", arg |-> r.op,
                                     pre |-> cpu, event |-> r.x.event])
    /\ UNCHANGED <<test_finished, hung, overflow_checks>>

SpecOps == InitOps /\ [][Step]_vars

\* Call i is a fetch and exec: trace[i].arg is the opcode.
IsStep(i) == trace[i].call = "exec"
Op(i) == trace[i].arg
Flags(c) == [f \in {Flag_S, Flag_Z, Flag_A, Flag_P, Flag_C} |->
                get_flag(c.regs, f)]

JmpOps == {195, 203}
JccOps == {194, 202, 210, 218, 226, 234, 242, 250}

\* Call i is a jump, call, return, RST or PCHL that transfers control.
TakenTransfer(i) ==
    \/ Op(i) \in JmpOps \cup CallOps \cup RetOps \cup RstOps \cup {233}
    \/ /\ Op(i) \in JccOps \cup CccOps \cup RccOps
       /\ condition(Pre(i), (Op(i) - 192) \div 8)

\* The length of the instruction: 3 with a 16-bit immediate (LXI, SHLD,
\* LHLD, STA, LDA, jumps and calls), 2 with an 8-bit one (MVI, ADI..CPI,
\* IN, OUT), else 1.
InstrLen(op) ==
    IF op \in {1, 17, 33, 49, 34, 42, 50, 58}
              \cup JmpOps \cup JccOps \cup CallOps \cup CccOps THEN 3
    ELSE IF op \in {6, 14, 22, 30, 38, 46, 54, 62, 211, 219} \cup AluImmOps
    THEN 2
    ELSE 1

\* C12: fetch returns the byte at PC; for every opcode that is not a taken
\* control transfer, fetch and exec leave PC = (PC_before + L) mod 65536,
\* L the length of the instruction, also when PC wraps past 0xffff.
C12_PcAdvance ==
    \A i \in Calls :
        IsStep(i) =>
            /\ Op(i) = read(Pre(i).memory, Pre(i).pc)
            /\ ~TakenTransfer(i) =>
                  Post(i).pc = (Pre(i).pc + InstrLen(Op(i))) % U16

\* C13: INX rp and DCX rp set the pair to (rp + 1) mod 65536 and
\* (rp - 1) mod 65536 for every value, 0xffff and 0x0000 included, change
\* no flag, and INX followed by DCX restores the pair.
C13_InxDcxWrap ==
    \A i \in Calls :
        /\ (IsStep(i) /\ Op(i) \in InxOps) =>
              /\ Returned(i)
              /\ get_rp(Post(i), Op(i) \div 16)
                     = (get_rp(Pre(i), Op(i) \div 16) + 1) % U16
              /\ Post(i).regs.f = Pre(i).regs.f
              /\ (i < Len(trace) /\ Op(i + 1) = Op(i) + 8) =>
                    get_rp(Post(i + 1), Op(i) \div 16)
                        = get_rp(Pre(i), Op(i) \div 16)
        /\ (IsStep(i) /\ Op(i) \in DcxOps) =>
              /\ Returned(i)
              /\ get_rp(Post(i), Op(i) \div 16)
                     = (get_rp(Pre(i), Op(i) \div 16) + U16 - 1) % U16
              /\ Post(i).regs.f = Pre(i).regs.f

\* C14: JMP and Jcc set PC to the little-endian operand after the opcode
\* when the condition holds (always, for JMP) and to the address after the
\* operand when it does not; SP, registers, flags and memory are unchanged.
C14_Jumps ==
    \A i \in Calls :
        (IsStep(i) /\ Op(i) \in JmpOps \cup JccOps) =>
            /\ Returned(i)
            /\ Post(i).pc = IF TakenTransfer(i)
                            THEN mem16(Pre(i).memory, Pre(i).pc + 1)
                            ELSE (Pre(i).pc + 3) % U16
            /\ Post(i).sp = Pre(i).sp
            /\ Post(i).regs = Pre(i).regs
            /\ Post(i).memory = Pre(i).memory

\* The operands of an arithmetic opcode: x = A, y the register or M named
\* by bits 0..2 or the immediate, and the carry flag before it.
X(i) == Pre(i).regs.a
Y(i) == IF Op(i) \in AluImmOps
        THEN read(Pre(i).memory, (Pre(i).pc + 1) % U16)
        ELSE regm(Pre(i), Op(i) % 8)
CarryFlag(i) == IF get_flag(Pre(i).regs, Flag_C) THEN 1 ELSE 0

EvenParity(r) == Cardinality({b \in 0..7 : Bit(r, b) = 1}) % 2 = 0

\* S, Z and P are those of the 8-bit result r.
SZP(i, r) ==
    /\ get_flag(Post(i).regs, Flag_S) = (r >= 128)
    /\ get_flag(Post(i).regs, Flag_Z) = (r = 0)
    /\ get_flag(Post(i).regs, Flag_P) = EvenParity(r)

AddOps == 128..135 \cup {198}
AdcOps == 136..143 \cup {206}

\* C15: ADD, ADC, ADI and ACI with x = A, operand y and carry-in cin (the
\* old C for ADC and ACI, 0 for ADD and ADI) set A = (x + y + cin) mod 256,
\* C = (x + y + cin > 0xff), the auxiliary carry
\* = ((x & 0xf) + (y & 0xf) + cin > 0xf), and S, Z, P from the result.
C15_AddFamily ==
    \A i \in Calls :
        (IsStep(i) /\ Op(i) \in AddOps \cup AdcOps) =>
            LET cin == IF Op(i) \in AdcOps THEN CarryFlag(i) ELSE 0
                sum == X(i) + Y(i) + cin
            IN /\ Returned(i)
               /\ Post(i).regs.a = sum % 256
               /\ get_flag(Post(i).regs, Flag_C) = (sum > 255)
               /\ get_flag(Post(i).regs, Flag_A)
                      = ((X(i) % 16) + (Y(i) % 16) + cin > 15)
               /\ SZP(i, sum % 256)

\* C15 witness: ACI 0xf0 with A = 0x0f and C set: the sum is 0x100, the
\* carry-in alone carries out of the low nibble.
C15_Witness ==
    \E i \in Calls :
        /\ IsStep(i) /\ Op(i) = 206 /\ Returned(i)
        /\ X(i) = 15 /\ Y(i) = 240 /\ CarryFlag(i) = 1
        /\ Post(i).regs.a = 0
        /\ get_flag(Post(i).regs, Flag_C)
        /\ get_flag(Post(i).regs, Flag_A)

SubOps == 144..151 \cup {214}
SbbOps == 152..159 \cup {222}
CmpOps == 184..191 \cup {254}

\* C16: after SUB, SBB, SUI, SBI, CMP or CPI with x = A, operand y and
\* borrow-in cin (the old C for SBB and SBI, else 0) the auxiliary carry is
\* set exactly when ((x & 0xf) - (y & 0xf) - cin) < 0; CPI 0x02 with
\* A = 0x01 on a new CPU leaves F = 0x97.
C16_SubAuxCarry ==
    \A i \in Calls :
        (IsStep(i) /\ Op(i) \in SubOps \cup SbbOps \cup CmpOps) =>
            LET cin == IF Op(i) \in SbbOps THEN CarryFlag(i) ELSE 0
            IN /\ get_flag(Post(i).regs, Flag_A)
                      = ((X(i) % 16) - (Y(i) % 16) - cin < 0)
               /\ (Op(i) = 254 /\ X(i) = 1 /\ Y(i) = 2 /\ Pre(i).regs.f = 2)
                      => Post(i).regs.f = 151

\* C17: SUB, SBB, SUI and SBI with x = A, operand y and borrow-in cin set
\* A = (x - y - cin) mod 256 and C = (x < y + cin), the sum y + cin not
\* truncated, and S, Z, P from the 8-bit result.
C17_SubFamily ==
    \A i \in Calls :
        (IsStep(i) /\ Op(i) \in SubOps \cup SbbOps) =>
            LET cin == IF Op(i) \in SbbOps THEN CarryFlag(i) ELSE 0
                r == (X(i) - Y(i) - cin + 512) % 256
            IN /\ Returned(i)
               /\ Post(i).regs.a = r
               /\ get_flag(Post(i).regs, Flag_C) = (X(i) < Y(i) + cin)
               /\ SZP(i, r)

\* C17 witness: SBI 0xff with A = 0xff and C set: y + cin = 0x100, the
\* borrow is set and the result is 0xff.
C17_Witness ==
    \E i \in Calls :
        /\ IsStep(i) /\ Op(i) = 222 /\ Returned(i)
        /\ X(i) = 255 /\ Y(i) = 255 /\ CarryFlag(i) = 1
        /\ Post(i).regs.a = 255
        /\ get_flag(Post(i).regs, Flag_C)

\* SUB r for CMP r and SUI for CPI: the opcode 40 below.
SubOfCmp(op) == op - 40

\* The CPU the SUB / SUI matching the CMP / CPI of call i would leave, run
\* from the state call i started in with that opcode in place of the CMP.
AfterSub(i) == exec(fetch(Pre(i)).cpu, SubOfCmp(Op(i))).cpu

\* C18: CMP x and CPI x leave A and every other register unchanged and
\* leave S, Z, A, P and C as SUB x and SUI x would from the same state;
\* A < x gives C = 1 and no failure.
C18_CmpAsSub ==
    \A i \in Calls :
        (IsStep(i) /\ Op(i) \in CmpOps) =>
            /\ Returned(i)
            /\ [Post(i).regs EXCEPT !.f = 0] = [Pre(i).regs EXCEPT !.f = 0]
            /\ Post(i).regs.f = AfterSub(i).regs.f
            /\ Post(i).memory = Pre(i).memory
            /\ Post(i).sp = Pre(i).sp
            /\ get_flag(Post(i).regs, Flag_C) = (X(i) < Y(i))

\* C18 witness: CPI 0x02 with A = 0x01: A stays 0x01, the borrow is set
\* and the result 0xff gives S = 1, Z = 0.
C18_Witness ==
    \E i \in Calls :
        /\ IsStep(i) /\ Op(i) = 254 /\ Returned(i)
        /\ X(i) = 1 /\ Y(i) = 2
        /\ Post(i).regs.a = 1
        /\ get_flag(Post(i).regs, Flag_C)
        /\ get_flag(Post(i).regs, Flag_S)
        /\ ~get_flag(Post(i).regs, Flag_Z)

\* The register or M that INR / DCR of opcode op names (bits 3..5).
Dest(op) == op \div 8
SameCarry(i) ==
    get_flag(Post(i).regs, Flag_C) = get_flag(Pre(i).regs, Flag_C)

\* C19: for every register and M and every value, 0xff included, INR r
\* followed by DCR r restores r, and neither INR nor DCR changes C.
C19_InrThenDcr ==
    \A i \in Calls :
        /\ (IsStep(i) /\ Op(i) \in InrOps) =>
              /\ Returned(i)
              /\ regm(Post(i), Dest(Op(i)))
                     = (regm(Pre(i), Dest(Op(i))) + 1) % 256
              /\ SameCarry(i)
              /\ (i < Len(trace) /\ Op(i + 1) = Op(i) + 1) =>
                    /\ Returned(i + 1)
                    /\ regm(Post(i + 1), Dest(Op(i)))
                           = regm(Pre(i), Dest(Op(i)))
                    /\ SameCarry(i + 1)
        /\ (IsStep(i) /\ Op(i) \in DcrOps) =>
              /\ Returned(i)
              /\ regm(Post(i), Dest(Op(i)))
                     = (regm(Pre(i), Dest(Op(i))) + 255) % 256
              /\ SameCarry(i)

\* C19 witness: INR M on 0xff with C clear gives 0x00, the DCR M after it
\* gives 0xff again, and C is still clear.
C19_Witness ==
    \E i \in Calls :
        /\ IsStep(i) /\ Op(i) = 52 /\ i < Len(trace) /\ Op(i + 1) = 53
        /\ regm(Pre(i), 6) = 255
        /\ regm(Post(i), 6) = 0
        /\ regm(Post(i + 1), 6) = 255
        /\ ~get_flag(Pre(i).regs, Flag_C)
        /\ ~get_flag(Post(i + 1).regs, Flag_C)

\* C20: DAD rp sets HL to (HL + rp) mod 65536 and C exactly when
\* HL + rp > 0xffff; S, Z, A and P, the other registers and SP are
\* unchanged.
C20_Dad ==
    \A i \in Calls :
        (IsStep(i) /\ Op(i) \in DadOps) =>
            LET sum == get_hl(Pre(i).regs) + get_rp(Pre(i), Op(i) \div 16)
            IN /\ Returned(i)
               /\ get_hl(Post(i).regs) = sum % U16
               /\ get_flag(Post(i).regs, Flag_C) = (sum > 65535)
               /\ \A f \in {Flag_S, Flag_Z, Flag_A, Flag_P} :
                     get_flag(Post(i).regs, f) = get_flag(Pre(i).regs, f)
               /\ [Post(i).regs EXCEPT !.h = 0, !.l = 0, !.f = 0]
                     = [Pre(i).regs EXCEPT !.h = 0, !.l = 0, !.f = 0]
               /\ Post(i).sp = Pre(i).sp

\* C20 witness: DAD with HL = 0x0001 and the pair 0xffff, C clear and the
\* other flags set: HL becomes 0x0000 and C is set.
C20_Witness ==
    \E i \in Calls :
        /\ IsStep(i) /\ Op(i) \in DadOps /\ Returned(i)
        /\ get_hl(Pre(i).regs) = 1
        /\ get_rp(Pre(i), Op(i) \div 16) = 65535
        /\ Pre(i).regs.f = 214
        /\ get_hl(Post(i).regs) = 0
        /\ Post(i).regs.f = 215

AnaOps == 160..167 \cup {230}
XraOps == 168..175 \cup {238}
OraOps == 176..183 \cup {246}

\* r is the bitwise and / xor / or of x and y, said bit by bit.
IsAnd(r, x, y) ==
    \A b \in 0..7 : (Bit(r, b) = 1) = (Bit(x, b) = 1 /\ Bit(y, b) = 1)
IsXor(r, x, y) == \A b \in 0..7 : (Bit(r, b) = 1) = (Bit(x, b) # Bit(y, b))
IsOr(r, x, y) ==
    \A b \in 0..7 : (Bit(r, b) = 1) = (Bit(x, b) = 1 \/ Bit(y, b) = 1)

\* C21: ANA, XRA, ORA, ANI, XRI and ORI leave C = 0; ANA and ANI set the
\* auxiliary carry to ((x | y) & 0x08) != 0, the others clear it; A is
\* the bitwise and / xor / or of A and the operand and S, Z, P follow it.
C21_Logic ==
    \A i \in Calls :
        (IsStep(i) /\ Op(i) \in AnaOps \cup XraOps \cup OraOps) =>
            /\ Returned(i)
            /\ Op(i) \in AnaOps => IsAnd(Post(i).regs.a, X(i), Y(i))
            /\ Op(i) \in XraOps => IsXor(Post(i).regs.a, X(i), Y(i))
            /\ Op(i) \in OraOps => IsOr(Post(i).regs.a, X(i), Y(i))
            /\ ~get_flag(Post(i).regs, Flag_C)
            /\ get_flag(Post(i).regs, Flag_A)
                   = (Op(i) \in AnaOps /\ (Bit(X(i), 3) = 1 \/ Bit(Y(i), 3) = 1))
            /\ SZP(i, Post(i).regs.a)

\* C21 witness: ANI 0xf0 with A = 0x0f and C set: the result is 0x00, C is
\* cleared and the auxiliary carry is set from bit 3 of x | y.
C21_Witness ==
    \E i \in Calls :
        /\ IsStep(i) /\ Op(i) = 230 /\ Returned(i)
        /\ X(i) = 15 /\ Y(i) = 240 /\ CarryFlag(i) = 1
        /\ Post(i).regs.a = 0
        /\ get_flag(Post(i).regs, Flag_A)
        /\ get_flag(Post(i).regs, Flag_Z)
        /\ ~get_flag(Post(i).regs, Flag_C)

----------------------------------------------------------------------------
(* Several instructions in a row, fetched and executed one after another:  *)
(* a memory full of one accumulator opcode, for every value of A, and the  *)
(* layout of the harness (OUT 0 at 0, OUT 1; RET at 5) with a CALL 0x0005  *)
(* somewhere in it.                                                        *)

MaxSeq == 8

\* RLC, RRC, RAL, RAR, DAA
AccOps == {7, 15, 23, 31, 39}

\* [op; 0x10000] with A and the flags set
CpuAcc(op, a, f) ==
    [CPU_new(filled(op)) EXCEPT !.regs.a = a, !.regs.f = f]

\* where the CALL 0x0005 lies: 0x100, and where its operand or the stack
\* reaches the end of memory
CallOrgs == {256, 65530, 65533}
\* the stack pointer before the CALL
CallSps == {0, 1, 512, 65535}

\* memory[0] = 0xd3; memory[1] = 0x00; memory[5] = 0xd3; memory[6] = 0x01;
\* memory[7] = 0xc9
harness_image == load(load(filled(0), 0, <<211, 0>>), 5, <<211, 1, 201>>)

CpuBdos(org, sp, a, f) ==
    [CPU_new(load(harness_image, org, <<205, 5, 0>>)) EXCEPT
        !.pc = org, !.sp = sp, !.regs.a = a, !.regs.f = f]

InitSeq ==
    /\ \/ \E op \in AccOps, a \in 0..255, f \in FlagBytes :
             cpu = CpuAcc(op, a, f)
       \/ \E org \in CallOrgs, sp \in CallSps, a \in Vals8, f \in FlagBytes :
             cpu = CpuBdos(org, sp, a, f)
    /\ test_finished = FALSE
    /\ hung = FALSE
    /\ overflow_checks \in BOOLEAN
    /\ trace = <<>>

\* let op = cpu.fetch(); cpu.exec(op), up to MaxSeq times
StepSeq ==
    /\ ~cpu.panicked
    /\ Len(trace) < MaxSeq
    /\ LET r == fetch_exec(cpu)
       IN /\ cpu' = r.x.cpu
          /\ trace' = Append(trace, [call |-> "exec", arg |-> r.op,
                                     pre |-> cpu, event |-> r.x.event])
    /\ UNCHANGED <<test_finished, hung, overflow_checks>>

SpecSeq == InitSeq /\ [][StepSeq]_vars

\* The CPU with A and the carry flag put aside: what a rotate must keep.
BesidesAAndCarry(c) == [c EXCEPT !.regs.a = 0, !.regs.f = BitAnd(@, 254),
                                 !.pc = 0]

\* C22: the rotates change only A and C.  RLC: A rotated left, C = old
\* bit 7.  RRC: A rotated right, C = old bit 0.  RAL: new bit 0 = old C,
\* C = old bit 7.  RAR: new bit 7 = old C, C = old bit 0.  S, Z, A, P and
\* all other state are unchanged.
C22_Rotates ==
    \A i \in Calls :
        (IsStep(i) /\ Op(i) \in {7, 15, 23, 31}) =>
            LET a == X(i)
                n == Post(i).regs.a
                cout == IF get_flag(Post(i).regs, Flag_C) THEN 1 ELSE 0
            IN /\ trace[i].event = Event_Normal(4)
               /\ BesidesAAndCarry(Post(i)) = BesidesAAndCarry(Pre(i))
               /\ Op(i) = 7 =>
                     n = ((2 * a) % 256) + Bit(a, 7) /\ cout = Bit(a, 7)
               /\ Op(i) = 15 =>
                     n = (a \div 2) + 128 * Bit(a, 0) /\ cout = Bit(a, 0)
               /\ Op(i) = 23 =>
                     n = ((2 * a) % 256) + CarryFlag(i) /\ cout = Bit(a, 7)
               /\ Op(i) = 31 =>
                     n = (a \div 2) + 128 * CarryFlag(i) /\ cout = Bit(a, 0)

\* C22 witness: RAR on A = 0x01 with C clear and S, Z, A, P set: A becomes
\* 0x00, C is set and the Z flag is still what it was.
C22_Witness ==
    \E i \in Calls :
        /\ IsStep(i) /\ Op(i) = 31
        /\ X(i) = 1 /\ Pre(i).regs.f = 214
        /\ Post(i).regs.a = 0 /\ Post(i).regs.f = 215

\* Calls i .. i + 7 are eight RLC in a row.
EightRlc(i) == i + 7 <= Len(trace) /\ \A k \in i..(i + 7) : Op(k) = 7

\* C23: for every starting A and C, eight RLC return A to its starting
\* value, and the final C is the starting bit 0 of A.
C23_EightRlc ==
    \A i \in Calls :
        EightRlc(i) =>
            /\ Post(i + 7).regs.a = Pre(i).regs.a
            /\ get_flag(Post(i + 7).regs, Flag_C) = (Bit(Pre(i).regs.a, 0) = 1)

\* C23 witness: eight RLC from A = 0xa5 with C clear: A is 0xa5 again and
\* C has become set.
C23_Witness ==
    /\ Len(trace) >= 8 /\ EightRlc(1)
    /\ Pre(1).regs.a = 165
    /\ ~get_flag(Pre(1).regs, Flag_C)
    /\ Post(8).regs.a = 165
    /\ get_flag(Post(8).regs, Flag_C)

\* The correction DAA adds: 0x06 for the low digit, 0x60 for the high one.
LowFix(i) == X(i) % 16 > 9 \/ get_flag(Pre(i).regs, Flag_A)
HighFix(i) ==
    \/ X(i) \div 16 > 9
    \/ get_flag(Pre(i).regs, Flag_C)
    \/ (X(i) \div 16 >= 9 /\ X(i) % 16 > 9)
Correction(i) == (IF LowFix(i) THEN 6 ELSE 0) + (IF HighFix(i) THEN 96 ELSE 0)

\* C24: DAA adds 0x06 if (A & 0x0f) > 9 or the auxiliary carry is set, and
\* 0x60 if (A >> 4) > 9 or C is set or ((A >> 4) >= 9 and (A & 0x0f) > 9);
\* A becomes (A + correction) mod 256 with S, Z, P and the auxiliary carry
\* from that addition; C is set if 0x60 was added and is the old C if not.
C24_Daa ==
    \A i \in Calls :
        (IsStep(i) /\ Op(i) = 39) =>
            LET r == (X(i) + Correction(i)) % 256
            IN /\ Returned(i)
               /\ Post(i).regs.a = r
               /\ SZP(i, r)
               /\ get_flag(Post(i).regs, Flag_A)
                      = ((X(i) % 16) + (Correction(i) % 16) > 15)
               /\ get_flag(Post(i).regs, Flag_C)
                      = (HighFix(i) \/ get_flag(Pre(i).regs, Flag_C))
               /\ (X(i) = 155 /\ Pre(i).regs.f = 2) =>
                     (Post(i).regs.a = 1 /\ get_flag(Post(i).regs, Flag_C))

\* C24 witness: DAA on A = 0x9b with C and the auxiliary carry clear gives
\* A = 0x01 with C set.
C24_Witness ==
    \E i \in Calls :
        /\ IsStep(i) /\ Op(i) = 39 /\ Returned(i)
        /\ X(i) = 155 /\ Pre(i).regs.f = 2
        /\ Post(i).regs.a = 1
        /\ get_flag(Post(i).regs, Flag_C)

\* C25: XCHG swaps DE and HL and changes nothing else (flags, A, B, C, SP,
\* memory); XCHG executed twice leaves DE and HL as they were.
C25_Xchg ==
    \A i \in Calls :
        (IsStep(i) /\ Op(i) = 235) =>
            /\ Returned(i)
            /\ get_de(Post(i).regs) = get_hl(Pre(i).regs)
            /\ get_hl(Post(i).regs) = get_de(Pre(i).regs)
            /\ Post(i).regs.a = Pre(i).regs.a
            /\ Post(i).regs.b = Pre(i).regs.b
            /\ Post(i).regs.c = Pre(i).regs.c
            /\ Post(i).regs.f = Pre(i).regs.f
            /\ Post(i).sp = Pre(i).sp
            /\ Post(i).memory = Pre(i).memory
            /\ (i < Len(trace) /\ Op(i + 1) = 235) =>
                  /\ get_de(Post(i + 1).regs) = get_de(Pre(i).regs)
                  /\ get_hl(Post(i + 1).regs) = get_hl(Pre(i).regs)

\* C25 witness: XCHG; XCHG from DE = 0xff00 and HL = 0x00ff with every
\* flag set: swapped after the first, back after the second.
C25_Witness ==
    \E i \in Calls :
        /\ IsStep(i) /\ Op(i) = 235 /\ i < Len(trace) /\ Op(i + 1) = 235
        /\ get_de(Pre(i).regs) = 65280 /\ get_hl(Pre(i).regs) = 255
        /\ Pre(i).regs.f = 215
        /\ get_de(Post(i).regs) = 255 /\ get_hl(Post(i).regs) = 65280
        /\ get_de(Post(i + 1).regs) = 65280 /\ get_hl(Post(i + 1).regs) = 255

NopAliases == {8, 16, 24, 32, 40, 48, 56}
Undocumented == NopAliases \cup {203, 217, 221, 237, 253}

\* The documented opcode an undocumented one stands for: NOP, JMP, RET,
\* CALL.
Documented(op) ==
    IF op \in NopAliases THEN 0
    ELSE IF op = 203 THEN 195
    ELSE IF op = 217 THEN 201
    ELSE 205

\* What exec of the documented opcode returns from the state call i
\* started in, once the opcode has been fetched.
AsDocumented(i) == exec(fetch(Pre(i)).cpu, Documented(Op(i)))

\* C26: each undocumented opcode leaves the state and returns the Event
\* that its documented form does from the same state: 0x08 .. 0x38 as NOP,
\* 0xcb as JMP, 0xd9 as RET, 0xdd, 0xed and 0xfd as CALL.
C26_Aliases ==
    \A i \in Calls :
        (IsStep(i) /\ Op(i) \in Undocumented) =>
            /\ Post(i) = AsDocumented(i).cpu
            /\ trace[i].event = AsDocumented(i).event

\* C26 witness: 0xdd at 0x100 with the operand 0x02ff calls 0x02ff: the
\* return address 0x0103 is pushed and the Event is Normal(17).
C26_Witness ==
    \E i \in Calls :
        /\ IsStep(i) /\ Op(i) = 221 /\ Pre(i).pc = 256
        /\ trace[i].event = Event_Normal(17)
        /\ Post(i).pc = 767
        /\ Post(i).sp = 65534
        /\ mem16(Post(i).memory, 65534) = 259

Cycles(i) == trace[i].event.cycles

\* C27: the Event of a control transfer carries these cycles: JMP 10,
\* CALL 17, RET 10, Ccc 17 taken and 11 not, Rcc 11 taken and 5 not.
C27_TransferCycles ==
    \A i \in Calls :
        (IsStep(i) /\ Returned(i)) =>
            /\ Op(i) = 195 => Cycles(i) = 10
            /\ Op(i) = 205 => Cycles(i) = 17
            /\ Op(i) = 201 => Cycles(i) = 10
            /\ Op(i) \in CccOps =>
                  Cycles(i) = IF TakenTransfer(i) THEN 17 ELSE 11
            /\ Op(i) \in RccOps =>
                  Cycles(i) = IF TakenTransfer(i) THEN 11 ELSE 5

\* The byte after the opcode of call i.
Imm(i) == read(Pre(i).memory, (Pre(i).pc + 1) % U16)

\* C28: OUT port returns Output(port, A, 10), port the byte after the
\* opcode and A the accumulator; PC moves past the operand; no register,
\* flag, SP or memory byte changes.
C28_Out ==
    \A i \in Calls :
        (IsStep(i) /\ Op(i) = 211) =>
            /\ trace[i].event = Event_Output(Imm(i), X(i), 10)
            /\ Post(i).pc = (Pre(i).pc + 2) % U16
            /\ Post(i).regs = Pre(i).regs
            /\ Post(i).sp = Pre(i).sp
            /\ Post(i).memory = Pre(i).memory

\* C28 witness: OUT 0x01 with A = 0x80 returns Output(1, 0x80, 10).
C28_Witness ==
    \E i \in Calls :
        /\ IsStep(i) /\ Op(i) = 211
        /\ Imm(i) = 1 /\ X(i) = 128
        /\ trace[i].event = Event_Output(1, 128, 10)
        /\ Post(i).pc = 2

\* The bytes a device may supply for a port.  exec takes no byte from a
\* device, so the CPU it leaves is the same whichever of them is supplied.
DeviceBytes == Vals8

\* C29: after IN port (10 cycles, a one-byte operand) A holds the byte the
\* device supplies for that port, whatever the port and the byte, and PC
\* has moved past the operand.
C29_InLoadsA ==
    \A i \in Calls :
        (IsStep(i) /\ Op(i) = 219) =>
            /\ trace[i].event = Event_Normal(10)
            /\ Post(i).pc = (Pre(i).pc + 2) % U16
            /\ \A b \in DeviceBytes : Post(i).regs.a = b

\* Call i is a CALL 0x0005 made with OUT 1; RET at 0x0005 .. 0x0007.
CallsBdos(i) ==
    /\ IsStep(i) /\ Op(i) = 205
    /\ mem16(Pre(i).memory, Pre(i).pc + 1) = 5
    /\ read(Pre(i).memory, 5) = 211
    /\ read(Pre(i).memory, 6) = 1
    /\ read(Pre(i).memory, 7) = 201

\* C30: with OUT 1; RET at 0x0005 .. 0x0007, a CALL 0x0005 from any
\* address is followed in two further steps by Output(1, A, 10) and then
\* PC = the address after the CALL, SP as before the CALL, and A, B, C, D,
\* E, H, L and the flags unchanged.
C30_CallBdos ==
    \A i \in Calls :
        CallsBdos(i) =>
            /\ Returned(i)
            /\ i + 1 <= Len(trace) =>
                  trace[i + 1].event = Event_Output(1, Pre(i).regs.a, 10)
            /\ i + 2 <= Len(trace) =>
                  /\ Returned(i + 2)
                  /\ Post(i + 2).pc = (Pre(i).pc + 3) % U16
                  /\ Post(i + 2).sp = Pre(i).sp
                  /\ Post(i + 2).regs = Pre(i).regs

----------------------------------------------------------------------------
(* SHLD and LHLD, the harness's end of test, single instructions of the    *)
(* unit tests, and the frames of calls, returns and stores.                *)

\* The 16-bit operand of the instruction fetched at call i.
Operand(i) == mem16(Pre(i).memory, Pre(i).pc + 1)

\* C31: SHLD a16 stores L at a16 and H at (a16 + 1) mod 65536, LHLD a16
\* loads L from a16 and H from (a16 + 1) mod 65536, for every a16, 0xffff
\* included; both return Normal(16) with PC past the operand, and LHLD a16
\* after SHLD a16 leaves HL as it was.
C31_ShldLhld ==
    \A i \in Calls :
        /\ (IsExec(i) /\ trace[i].arg = 34) =>
              /\ trace[i].event = Event_Normal(16)
              /\ Post(i).pc = (Pre(i).pc + 3) % U16
              /\ read(Post(i).memory, Operand(i)) = Pre(i).regs.l
              /\ read(Post(i).memory, (Operand(i) + 1) % U16) = Pre(i).regs.h
              /\ (i < Len(trace) /\ IsExec(i + 1) /\ trace[i + 1].arg = 42
                      /\ Operand(i + 1) = Operand(i)) =>
                    get_hl(Post(i + 1).regs) = get_hl(Pre(i).regs)
        /\ (IsExec(i) /\ trace[i].arg = 42) =>
              /\ trace[i].event = Event_Normal(16)
              /\ Post(i).pc = (Pre(i).pc + 3) % U16
              /\ Post(i).regs.l = read(Pre(i).memory, Operand(i))
              /\ Post(i).regs.h = read(Pre(i).memory, (Operand(i) + 1) % U16)

\* Call i returned Output with port 0.
EndOfTest(i) ==
    IsExec(i) /\ trace[i].event.tag = "Output" /\ trace[i].event.port = 0

\* Call i executes the instruction at 0x0000, an OUT 0 or a HLT.
ReachesZero(i) ==
    /\ IsExec(i) /\ Pre(i).pc = 0
    /\ \/ trace[i].arg = 211 /\ read(Pre(i).memory, 1) = 0
       \/ trace[i].arg = 118

\* C32: test_finished is true exactly when a step has returned Output with
\* port 0, run() makes no step after that one, and a step that executes
\* the OUT 0 or HLT at 0x0000 is the last of the run.
C32_EndOfTest ==
    /\ test_finished <=> \E i \in Calls : EndOfTest(i)
    /\ \A i \in Calls :
          (EndOfTest(i) \/ ReachesZero(i)) =>
              \A j \in Calls : i < j => ~IsExec(j)

\* Call i is the ADI of tests::test_adi: ADI 0x01 with A = 0xfe.
IsTestAdi(i) == IsStep(i) /\ Op(i) = 198 /\ X(i) = 254 /\ Y(i) = 1

\* What the ADI leaves besides the auxiliary carry: A = 0xff, C = 0,
\* Z = 0, S = 1, P = 1, PC after the operand.
AdiResult(i) ==
    /\ trace[i].event = Event_Normal(7)
    /\ Post(i).regs.a = 255
    /\ ~get_flag(Post(i).regs, Flag_C)
    /\ ~get_flag(Post(i).regs, Flag_Z)
    /\ get_flag(Post(i).regs, Flag_S)
    /\ get_flag(Post(i).regs, Flag_P)
    /\ Post(i).pc = (Pre(i).pc + 2) % U16

\* C33 as stated: ADI 0x01 with A = 0xfe gives A = 0xff, C = 0, Z = 0,
\* S = 1, P = 1 and the auxiliary carry set.
C33_AdiAuxSet ==
    \A i \in Calls :
        IsTestAdi(i) => AdiResult(i) /\ get_flag(Post(i).regs, Flag_A)

\* C33 amended: ADI 0x01 with A = 0xfe gives A = 0xff, C = 0, Z = 0,
\* S = 1, P = 1 and the auxiliary carry clear (0xe + 0x1 does not carry
\* out of bit 3).
C33_Adi ==
    \A i \in Calls :
        IsTestAdi(i) => AdiResult(i) /\ ~get_flag(Post(i).regs, Flag_A)

\* C33 witness: the ADI has run, from flags all set, and left F = 0x86.
C33_Witness ==
    \E i \in Calls :
        /\ IsTestAdi(i)
        /\ Pre(i).regs.f = 215
        /\ Post(i).regs.a = 255
        /\ Post(i).regs.f = 134

\* Call k is a write16 or a read16 that does not reach past 0xffff.
IsWrite16(k) == trace[k].call = "write16" /\ trace[k].arg < 65535
IsRead16(k) == trace[k].call = "read16" /\ trace[k].arg < 65535

----------------------------------------------------------------------------
(* The tests of cpu.rs that use the stack: an image with a call, a PUSH or *)
(* a POP at 0, CPU::new, then set_de(0xff02), sp -= 2 and fetch and exec   *)
(* in any order.                                                           *)

MaxUnit == 3

PopOps == {193, 209, 225, 241}
StackOps == CallOps \cup CccOps \cup PushOps \cup PopOps

\* memory[0] = op, alone or with memory[1] = 0xff; memory[2] = 0x02, and
\* with or without memory[0xf000 - 2] = 0xff; memory[0xf000 - 1] = 0x02
stack_image(op, tail, below) ==
    load(load(filled(0), 0, <<op>> \o tail), 61438, below)

InitUnit ==
    /\ \E op \in StackOps, tail \in {<<>>, <<255, 2>>},
          below \in {<<>>, <<255, 2>>} :
             cpu = CPU_new(stack_image(op, tail, below))
    /\ test_finished = FALSE
    /\ hung = FALSE
    /\ overflow_checks \in BOOLEAN
    /\ trace = <<>>

\* cpu.regs.set_de(0xff02)
UnitSetDe ==
    /\ ~cpu.panicked
    /\ Len(trace) < MaxUnit
    /\ cpu' = [cpu EXCEPT !.regs = set_de(@, 65282)]
    /\ trace' = Append(trace, [call |-> "set_de", arg |-> 65282,
                               pre |-> cpu, event |-> None])
    /\ UNCHANGED <<test_finished, hung, overflow_checks>>

\* cpu.sp -= 2
UnitSpDec ==
    /\ ~cpu.panicked
    /\ Len(trace) < MaxUnit
    /\ cpu' = IF overflows16(cpu.sp - 2) THEN panic(cpu)
              ELSE [cpu EXCEPT !.sp = wrap16(cpu.sp - 2)]
    /\ trace' = Append(trace,
           [call |-> "sp -= 2", arg |-> 2, pre |-> cpu,
            event |-> IF overflows16(cpu.sp - 2) THEN NoEvent ELSE None])
    /\ UNCHANGED <<test_finished, hung, overflow_checks>>

\* let op = cpu.fetch(); cpu.exec(op)
UnitStep ==
    /\ ~cpu.panicked
    /\ Len(trace) < MaxUnit
    /\ LET r == fetch_exec(cpu)
       IN /\ cpu' = r.x.cpu
          /\ trace' = Append(trace, [call |-> "exec", arg |-> r.op,
                                     pre |-> cpu, event |-> r.x.event])
    /\ UNCHANGED <<test_finished, hung, overflow_checks>>

NextUnit == UnitSetDe \/ UnitSpDec \/ UnitStep

SpecUnit == InitUnit /\ [][NextUnit]_vars

\* Call i is the first use of the stack pointer since CPU::new.
FirstOnStack(i) == \A j \in 1..(i - 1) : trace[j].call = "set_de"

\* Call i is the first taken CALL or PUSH of a CPU built by CPU::new.
FirstPush(i) ==
    /\ IsStep(i) /\ FirstOnStack(i)
    /\ \/ Op(i) \in PushOps
       \/ Op(i) \in CallOps \cup CccOps /\ TakenTransfer(i)

\* The word it pushes: the pair of a PUSH, the return address of a call.
PushedWord(i) ==
    IF Op(i) \in PushOps THEN get_rp_psw(Pre(i), (Op(i) - 192) \div 16)
    ELSE (Pre(i).pc + 3) % U16

\* Call i is the sp -= 2 of tests::test_pop, made on the CPU as built.
FirstSpDec(i) == trace[i].call = "sp -= 2" /\ FirstOnStack(i)

----------------------------------------------------------------------------
(* Frames of calls, returns, injections and stores, and the halt.          *)

\* Call i is a conditional call or return whose condition is false.
Untaken(i) == IsStep(i) /\ ~condition(Pre(i), (Op(i) - 192) \div 8)

\* C36: a conditional call whose condition is false changes only PC, to
\* the address after its two-byte operand: SP, memory, registers and flags
\* are as before; a conditional return whose condition is false changes
\* nothing after the fetch.
C36_UntakenFrame ==
    \A i \in Calls :
        /\ (Op(i) \in CccOps /\ Untaken(i)) =>
              /\ Returned(i)
              /\ Post(i) = [Pre(i) EXCEPT !.pc = (Pre(i).pc + 3) % U16]
        /\ (Op(i) \in RccOps /\ Untaken(i)) =>
              /\ Returned(i)
              /\ Post(i) = [Pre(i) EXCEPT !.pc = (Pre(i).pc + 1) % U16]

\* C36 witness: CZ 0x02ff at 0xfffd with Z clear has left PC = 0 and SP,
\* memory and registers as they were.
C36_Witness ==
    \E i \in Calls :
        /\ Op(i) = 204 /\ Untaken(i) /\ Pre(i).pc = 65533
        /\ trace[i].event = Event_Normal(11)
        /\ Post(i).pc = 0 /\ Post(i).sp = Pre(i).sp
        /\ Post(i).memory = Pre(i).memory
        /\ Post(i).regs = Pre(i).regs

\* The return address of the taken CALL i is pushed over its operand: the
\* new SP or the new SP + 1 is one of the operand's two addresses.
PushOverOperand(i) ==
    LET sp == (Pre(i).sp + U16 - 2) % U16
    IN {sp, (sp + 1) % U16}
           \cap {(Pre(i).pc + 1) % U16, (Pre(i).pc + 2) % U16} # {}

\* C37: a taken CALL that completes sets PC to the 16-bit operand as it
\* stood in memory when the opcode was fetched, also when the push of the
\* return address overlaps the operand.
C37_CallTargetAsFetched ==
    \A i \in Calls :
        (TakenCall(i) /\ Returned(i)) => Post(i).pc = Operand(i)

\* Call j is an EI.
IsEi(j) == IsExec(j) /\ trace[j].arg = 251

\* Call i is an accepted injection and call i + 1 the RET of its handler.
HandlerReturns(i) ==
    /\ Accepted(i) /\ i < Len(trace)
    /\ IsExec(i + 1) /\ trace[i + 1].arg \in RetOps

\* C38: an accepted injection followed by a RET in the handler resumes at
\* the PC that was current when the injection was accepted, with SP as it
\* was then, and the latch stays false until an EI is executed.
C38_InterruptThenRet ==
    \A i \in Calls :
        HandlerReturns(i) =>
            /\ Pre(i + 1).pc = trace[i].arg
            /\ Returned(i + 1)
            /\ Post(i + 1).pc = Pre(i).pc
            /\ Post(i + 1).sp = Pre(i).sp
            /\ \A j \in i..Len(trace) :
                  (\A k \in (i + 1)..j : ~IsEi(k)) => ~Post(j).inter

\* C38 witness: EI at 0xfffd, an injection of vector 8 accepted at
\* PC = 0xfffe with SP = 0, and the RET at 0x0008: PC = 0xfffe and SP = 0
\* again, the latch false.
C38_Witness ==
    \E i \in Calls :
        /\ HandlerReturns(i)
        /\ trace[i].arg = 8 /\ Pre(i).pc = 65534 /\ Pre(i).sp = 0
        /\ Post(i).sp = 65534
        /\ Post(i + 1).pc = 65534 /\ Post(i + 1).sp = 0
        /\ ~Post(i + 1).inter

\* The addresses whose byte differs between two stores; write never
\* changes the fill, so these lie among the addresses set in either.
Changed(m1, m2) ==
    {a \in (DOMAIN m1.set) \cup (DOMAIN m2.set) : read(m1, a) # read(m2, a)}

\* The one or two addresses after a, modulo 65536.
Byte(a) == {a % U16}
Word(a) == {a % U16, (a + 1) % U16}

\* The bytes the opcode of call i addresses for a store: none unless it is
\* STAX, MOV M,r, MVI M, INR M, DCR M, STA, SHLD, XTHL, PUSH, a taken
\* CALL or RST; the stack instructions address the word at SP - 2.
Addressed(i) ==
    LET op == trace[i].arg
        c == Pre(i)
    IN CASE op = 2 -> Byte(get_bc(c.regs))
         [] op = 18 -> Byte(get_de(c.regs))
         [] op \in (112..119) \ {118} -> Byte(get_hl(c.regs))
         [] op \in {52, 53, 54} -> Byte(get_hl(c.regs))
         [] op = 50 -> Byte(Operand(i))
         [] op = 34 -> Word(Operand(i))
         [] op = 227 -> Word(c.sp)
         [] op \in PushOps \cup RstOps -> Word(c.sp + U16 - 2)
         [] TakenCall(i) -> Word(c.sp + U16 - 2)
         [] OTHER -> {}

\* C39: exec changes no memory byte other than the one or two bytes a
\* store-type opcode addresses, and none at all for any other opcode.
C39_StoreFrame ==
    \A i \in Calls :
        IsExec(i) =>
            Changed(Pre(i).memory, Post(i).memory) \subseteq Addressed(i)

\* Call i is a HLT executed with the interrupt latch false.
HaltsUnlatched(i) ==
    IsExec(i) /\ trace[i].arg = 118 /\ ~Pre(i).inter
        /\ trace[i].event.tag = "Halt"

\* C40: after a HLT executed with the latch false, every injection returns
\* None and changes nothing, and no instruction is executed again.
C40_HaltedForever ==
    \A i \in Calls :
        HaltsUnlatched(i) =>
            \A j \in (i + 1)..Len(trace) :
                /\ IsInject(j) =>
                      trace[j].event = None /\ Post(j) = Pre(j)
                /\ ~IsExec(j)

====
